---- MODULE Spec2Model ----
(***************************************************************************)
(* mp3-rewind: the byte ring of src/utils/circular_buffers.c with its      *)
(* producer, consumer and control threads, and the buffer pool of          *)
(* src/audio/audio_buffers.c on top of a Zephyr memory slab.               *)
(*                                                                         *)
(* Every critical section of the ring runs under cb->mutex, so one action  *)
(* is one critical section.  k_condvar_wait releases the mutex: a thread   *)
(* is "waiting" while it is pended on the condition variable, "woken" once *)
(* a signal or broadcast made it ready and until it owns the mutex again,  *)
(* and "idle" between two calls.                                           *)
(***************************************************************************)
EXTENDS Integers, Sequences, FiniteSets, TLC

\* ---- bounds of the model ------------------------------------------------
CapSz == 3          \* capacity handed to circular_buffer_init
MaxLen == 3         \* longest data / len of one call
MaxBytes == 7       \* payload bytes offered while the history is recorded

MaxAllocs == 4      \* successful audio_buffer_alloc calls
MaxFrees == 2       \* successful audio_buffer_free calls
MaxFails == 1       \* failed audio_buffer_alloc calls
MaxBootOps == 6     \* calls on the pool in a run that starts at boot

MaxPayload == 4     \* audio bytes in a well-formed WAV input
MaxRead == 3        \* largest buffer_size of one wav_decoder_read
BufBytes == 3       \* bytes of the data region of the buffer that is written and read
AudioCap == 5       \* capacity of audio_ctx.audio_buffer while the playback path runs
MaxFrames == 2      \* samples the playback thread puts out
MaxUptimeMs == 1    \* milliseconds the uptime advances by ticks
MaxInits == 1       \* successful audio_buffer_pool_init calls
MaxFills == 1       \* audio_buffer_write calls that stored something
BufWords == 2       \* pointer-sized words of one block (BUFFER_SIZE_BYTES)

\* ---- program constants --------------------------------------------------
EINVAL == 22
EALREADY == 120
ENOTSUP == 134
ENODEV == 19
ENOTCONN == 128
SampleRate == 44100
BitsPerSample == 16
WAV_HEADER_MIN == 44
FMT_CHUNK_ID == 544501094       \* 0x20746d66, "fmt "
DATA_CHUNK_ID == 1635017060     \* 0x61746164, "data"
MAX_AUDIO_BUFFERS == 4

\* size_t and uint32_t are 32-bit unsigned words on the target.  TLC computes
\* with 32-bit signed integers, so the words are modelled 30 bits wide: a
\* difference below zero still wraps to a huge positive value.
SizeMod == 2 ^ 30

Producers == {"p1", "p2"}
Consumers == {"c1"}
Control == "ctrl"
Threads == Producers \cup Consumers

Callers == {"a", "b"}
Slots == 1..MAX_AUDIO_BUFFERS   \* slot i is &buffer_pool.buffers[i - 1]
NULL == 0

VARIABLES
    cb,         \* circular_buffer_t: buffer, size, head, tail, count
    pc,         \* per thread: "idle", "waiting" (in k_condvar_wait), "woken"
    arg,        \* per thread: the argument of the call it is blocked in
    wokeBy,     \* per thread: what ended its last wait ("signal", "clear")
    streaming,  \* bt_audio.streaming
    last,       \* the step just taken: operation, caller, result
    hist,       \* history: bytes offered, accepted and delivered so far
    pool,       \* buffer_pool: initialized and the three counters
    slab,       \* buffer_pool.buffer_slab: free_list, num_used, and the link
                \* word the slab keeps in the first bytes of each block
    task,       \* per caller of the pool: where it is in its call, the block
                \* it got, the handles it holds
    issued,     \* the handles audio_buffer_alloc has returned so far
    pstep,      \* the pool step just taken: operation, caller, handle, result
    bufs,       \* buffer_pool.buffers with buffer_memory: per slot the words
                \* of the block ("zero", "pcm" for bytes a holder wrote, "link"
                \* for a free-list pointer of the slab), used and flags
    life,       \* how often the pool was initialized and written to;
                \* whether the run started at boot, and the calls made in it
    dec,        \* struct wav_decoder
    wlast,      \* the decoder call just made: operation, argument, results
    wgh,        \* the input of the last wav_decoder_init, the bytes read
                \* since, and whether a seek was made since
    build,      \* which implementation of audiosys.h is linked: audioplay.c
                \* or audiosys.c (with bluetooth.c and audioplay_stubs.c)
    audio,      \* audio_ctx of audioplay.c or audio_system of audiosys.c:
                \* state, initialized, output_type, thread_running, and the
                \* playback threads alive
    bt,         \* bt_audio: initialized, connected, the streaming thread;
                \* whether bt_enable was called, whether a link is up;
                \* gatt_audio_state.audio_data_subscribed and the bytes
                \* notified to the client
    slast,      \* the audio_system call just made: operation, result, and
                \* the state and threads it found
    abuf,       \* one struct audio_buffer checked out of the pool, with the
                \* bytes of its data region
    astep,      \* the audio_buffer_write / _read call just made on it
    afifo,      \* the bytes written to it and not read yet
    pt,         \* audio_playback_thread: where it is, next_sample_time, and
                \* what it has read and put out
    wr,         \* the caller of audio_system_write of audioplay.c: where it
                \* is in the call, its locals, and what the last call returned
    clock,      \* the time since boot in microseconds
    pwm         \* the output stage of audioplay.c: filter_prev_sample, and
                \* the sample and pulse width of the last pwm_set

ringVars == <<cb, pc, arg, wokeBy, streaming, last, hist>>
poolVars == <<pool, slab, task, issued, pstep, bufs, life>>
wavVars == <<dec, wlast, wgh>>
sysVars == <<build, audio, bt, slast>>
bufVars == <<abuf, astep, afifo>>
thrVars == <<pt, wr, clock, pwm>>
vars == <<ringVars, poolVars, wavVars, sysVars, bufVars, thrVars>>

\* size_t subtraction
SubSz(a, b) == (a - b) % SizeMod

Min(a, b) == IF a < b THEN a ELSE b

IsPrefix(s, t) == Len(s) <= Len(t) /\ SubSeq(t, 1, Len(s)) = s

\* The unread bytes of the ring, oldest first.
Content(c) == [i \in 1..c.count |-> c.buffer[(c.tail + i - 1) % c.size]]

\* memcpy(&buffer[at], src, Len(src))
CopyIn(buffer, at, src) ==
    [i \in DOMAIN buffer |->
        IF i >= at /\ i < at + Len(src) THEN src[i - at + 1] ELSE buffer[i]]

\* memcpy(dst, &buffer[at], n)
CopyOut(buffer, at, n) == [i \in 1..n |-> buffer[at + i - 1]]

\* Mutants of ToWrite: the length is not clamped at all; it is clamped to the
\* capacity instead of the free space.
ToWrite_NoClamp(c, len) == len
ToWrite_ClampToSize(c, len) == IF len > c.size THEN c.size ELSE len

\* circular_buffers.c:43-44 and 89-90
ToWrite(c, len) ==
    LET available == SubSz(c.size, c.count)
    IN  IF len > available THEN available ELSE len

\* circular_buffers.c:118 and 163
ToRead(c, len) == IF len > c.count THEN c.count ELSE len

\* Mutant of RingStore: the second part of a split copy is dropped.
RingStore_NoSecondCopy(c, data, to_write) ==
    LET bytes_to_end == SubSz(c.size, c.head)
        buf == CopyIn(c.buffer, c.head, SubSeq(data, 1, Min(to_write, bytes_to_end)))
    IN  [c EXCEPT !.buffer = buf,
                  !.head = (c.head + to_write) % c.size,
                  !.count = c.count + to_write]

\* Mutant of RingStore: head is advanced without the modulo.
RingStore_HeadNoWrap(c, data, to_write) ==
    [c EXCEPT !.buffer = CopyIn(c.buffer, c.head, SubSeq(data, 1, to_write)),
              !.head = c.head + to_write,
              !.count = c.count + to_write]

\* circular_buffers.c:52-63 and 93-102: the copy, split at the physical end
RingStore(c, data, to_write) ==
    LET bytes_to_end == SubSz(c.size, c.head)
        buf == IF to_write <= bytes_to_end
               THEN CopyIn(c.buffer, c.head, SubSeq(data, 1, to_write))
               ELSE CopyIn(CopyIn(c.buffer, c.head, SubSeq(data, 1, bytes_to_end)),
                           0, SubSeq(data, bytes_to_end + 1, to_write))
    IN  [c EXCEPT !.buffer = buf,
                  !.head = (c.head + to_write) % c.size,
                  !.count = c.count + to_write]

\* circular_buffers.c:126-134 and 166-172: the bytes handed to the reader
RingLoad(c, to_read) ==
    LET bytes_to_end == SubSz(c.size, c.tail)
    IN  IF to_read <= bytes_to_end
        THEN CopyOut(c.buffer, c.tail, to_read)
        ELSE CopyOut(c.buffer, c.tail, bytes_to_end)
                 \o CopyOut(c.buffer, 0, to_read - bytes_to_end)

\* Mutant of RingDrop: tail is not advanced.
RingDrop_TailKept(c, to_read) == [c EXCEPT !.count = SubSz(c.count, to_read)]

\* circular_buffers.c:136-137 and 174-175
RingDrop(c, to_read) ==
    [c EXCEPT !.tail = (c.tail + to_read) % c.size,
              !.count = SubSz(c.count, to_read)]

\* circular_buffers.c:183-207
circular_buffer_space_get(c) == SubSz(c.size, c.count)
circular_buffer_size_get(c) == c.count
circular_buffer_is_empty(c) == c.count = 0
circular_buffer_is_full(c) == c.count = c.size

\* Mutant of MustWaitForSpace: an if instead of a while.
MustWaitForSpace_Once(c, woke) == woke = "none" /\ c.count = c.size

\* circular_buffers.c:81: the condition of the producer's wait loop, evaluated
\* on entry (woke = "none") and again after every wake-up
MustWaitForSpace(c, woke) == c.count = c.size

\* circular_buffers.c:155: the condition of the consumer's wait loop
MustWaitForData(c, woke) == c.count = 0

\* ---- condition variables --------------------------------------------
NotFullWaiters(p) == {t \in Producers : p[t] = "waiting"}
NotEmptyWaiters(p) == {t \in Consumers : p[t] = "waiting"}

\* Mutant of Signal: nobody is made ready.
Signal_Nobody(p, w, waiters) == {<<p, w>>}

\* k_condvar_signal: one pended thread, if any, is made ready.  The result is
\* the set of <<pc, wokeBy>> pairs the kernel may produce.
Signal(p, w, waiters) ==
    IF waiters = {} THEN {<<p, w>>}
    ELSE {<<[p EXCEPT ![t] = "woken"], [w EXCEPT ![t] = "signal"]>> : t \in waiters}

\* k_condvar_broadcast: every pended thread is made ready.
Broadcast(p, w, waiters, why) ==
    <<[t \in Threads |-> IF t \in waiters THEN "woken" ELSE p[t]],
      [t \in Threads |-> IF t \in waiters THEN why ELSE w[t]]>>

\* ---- history ------------------------------------------------------------
\* The n bytes a producer passes next: byte k of the stream has value k while
\* the history is kept, and every byte is 1 otherwise.
Payload(n) == [i \in 1..n |-> IF hist.rec THEN hist.nxt + i ELSE 1]

CanOffer(n) == hist.rec => hist.nxt + n <= MaxBytes

Offered(n, free) ==
    IF hist.rec
    THEN [hist EXCEPT !.nxt = hist.nxt + n,
                      !.overlong = hist.overlong \/ n > free]
    ELSE hist

Accepted(h, bytes) ==
    IF h.rec THEN [h EXCEPT !.accepted = h.accepted \o bytes] ELSE h

Delivered(h, bytes) ==
    IF h.rec THEN [h EXCEPT !.delivered = h.delivered \o bytes] ELSE h

\* What a step did: the call, the caller, the length asked for, the bytes
\* passed or returned (kept with the history only), the value returned,
\* whether a wait timed out, and what had ended the caller's previous wait.
Step(op, who, len, data, ret, timedout, wake) ==
    [op |-> op, who |-> who, len |-> len,
     data |-> IF hist.rec THEN data ELSE <<>>,
     ret |-> ret, timedout |-> timedout, wake |-> wake]

NoHistory ==
    [rec |-> FALSE, nxt |-> 0, accepted |-> <<>>, delivered |-> <<>>,
     overlong |-> FALSE]

\* ---- initial state: after circular_buffer_init(cb, memory, CapSz) --------
NewRing(buffer, size) ==
    [buffer |-> buffer, size |-> size, head |-> 0, tail |-> 0, count |-> 0]

\* A block of buffer_memory with its structure, as the static storage is at
\* boot: all zero.
ZeroBuffer == [data |-> [i \in 1..BufWords |-> "zero"], used |-> 0, flags |-> 0]

\* audio_buffers.c:55-58 and 64-72: k_mem_slab_init stores the link to the
\* next free block (next, NULL for none) in the first word of the block, the
\* loop resets the structure.
InitBuffer(b, next) ==
    [b EXCEPT !.data[1] = IF next = NULL THEN "zero" ELSE "link",
              !.used = 0, !.flags = 0]

\* audio_buffers.c:47-83, audio_buffer_pool_init.  k_mem_slab_init threads
\* the blocks into the free list one after the other, so that the last block
\* is its head.
PoolAfterInit ==
    /\ pool = [initialized |-> TRUE, buffers_allocated |-> 0, buffers_freed |-> 0,
               allocation_failures |-> 0]
    /\ slab = [free_list |-> MAX_AUDIO_BUFFERS, num_used |-> 0,
               link |-> [b \in Slots |-> b - 1]]
    /\ task = [c \in Callers |-> [pc |-> "idle", mem |-> NULL, held |-> {}]]
    /\ issued = {}
    /\ pstep = [op |-> "pool_init", who |-> "main", buf |-> NULL, ret |-> 0]
    /\ bufs = [b \in Slots |-> InitBuffer(ZeroBuffer, b - 1)]
    /\ life = [inits |-> 1, fills |-> 0, boot |-> FALSE, ops |-> 0]

\* wav_decoder.h:44-59, a decoder that is all zero
ZeroDecoder ==
    [data |-> <<>>, data_len |-> 0, position |-> 0,
     format |-> [format_tag |-> 0, channels |-> 0, sample_rate |-> 0,
                 bytes_per_sec |-> 0, block_align |-> 0, bits_per_sample |-> 0],
     audio_data_offset |-> 0, audio_data_size |-> 0, is_initialized |-> FALSE]

\* What a decoder call did: the call, its length argument, the value returned,
\* whether it read outside the input, and for wav_decoder_read_samples the
\* index of *audio_samples in the chunk (-1 for NULL), *samples_len and
\* whether the decoder was initialized when that call began.
WStep(op, n, ret, oob, start, len, was_init) ==
    [op |-> op, n |-> n, ret |-> ret, oob |-> oob, start |-> start, len |-> len,
     was_init |-> was_init]

NoInput == [kind |-> "none", why |-> "", bytes |-> <<>>, payload |-> <<>>]

WavAtBoot ==
    /\ dec = ZeroDecoder
    /\ wlast = WStep("boot", 0, 0, FALSE, -1, 0, FALSE)
    /\ wgh = [src |-> NoInput, out |-> <<>>, seeked |-> FALSE]

\* The static storage of audio_buffers.c:28-45 at boot: nothing initialized.
PoolAtBoot ==
    /\ pool = [initialized |-> FALSE, buffers_allocated |-> 0, buffers_freed |-> 0,
               allocation_failures |-> 0]
    /\ slab = [free_list |-> NULL, num_used |-> 0, link |-> [b \in Slots |-> NULL]]
    /\ task = [c \in Callers |-> [pc |-> "idle", mem |-> NULL, held |-> {}]]
    /\ issued = {}
    /\ pstep = [op |-> "boot", who |-> "main", buf |-> NULL, ret |-> 0]
    /\ bufs = [b \in Slots |-> ZeroBuffer]
    /\ life = [inits |-> 0, fills |-> 0, boot |-> TRUE, ops |-> 0]

RingAfterInit(h) ==
    /\ hist = h
    /\ cb = NewRing([i \in 0..(CapSz - 1) |-> 0], CapSz)
    /\ pc = [t \in Threads |-> "idle"]
    /\ arg = [t \in Threads |-> IF t \in Producers THEN <<>> ELSE 0]
    /\ wokeBy = [t \in Threads |-> "none"]
    /\ streaming = FALSE
    /\ last = Step("init", Control, CapSz, <<>>, 0, FALSE, "none")

\* audiosys.h:54-60, audio_state_t
AudioStates == {"UNINITIALIZED", "INITIALIZED", "PLAYING", "PAUSED", "ERROR"}

\* audiosys.h:27-30, audio_output_type_t
OutputTypes == {"BUZZER", "BLUETOOTH"}

\* The two files that implement audiosys.h; a firmware image links one.
Builds == {"audioplay", "audiosys"}

\* audioplay.c:63 and bluetooth.c:142: the volume before any set_volume call
DefaultVolume == 50
BtDefaultVolume == 75

\* What a call did: the call, its return value, the state and the threads it
\* found; for calls with an argument the argument, and for audio_system_init
\* whether the backend was made to fail and the configuration stored before.
SysStepWith(op, ret, state, threads, a, fault, stored) ==
    [op |-> op, ret |-> ret, state |-> state, threads |-> threads,
     arg |-> a, fault |-> fault, stored |-> stored]

SysStep(op, ret, state, threads) ==
    SysStepWith(op, ret, state, threads, "none", FALSE, "none")

\* audio_ctx.config.format before audio_system_init copied one in
\* (audioplay.c:61-66: the static context is zero)
NoFormat == [channels |-> 0, bits_per_sample |-> 0]

\* The audio_format_t main.c passes to audio_system_init (main.c:343-347)
MainFormat == [channels |-> 1, bits_per_sample |-> BitsPerSample]

\* audioplay.c:61-66 and audiosys.c:21-24, bluetooth.c bt_audio: the static
\* initializers. config is zero-filled, so output_type reads as
\* AUDIO_OUTPUT_BUZZER (the enumerator 0).
SysAtBoot(b) ==
    /\ build = b
    /\ audio = [state |-> "UNINITIALIZED", initialized |-> FALSE,
                output_type |-> "BUZZER", thread_running |-> FALSE,
                threads |-> 0,
                volume |-> IF b = "audioplay" THEN DefaultVolume ELSE 0,
                format |-> NoFormat]
    /\ bt = [initialized |-> FALSE, connected |-> FALSE, enabled |-> FALSE,
             link |-> FALSE, thread |-> FALSE, volume |-> 0,
             subscribed |-> FALSE, sent |-> <<>>]
    /\ slast = SysStep("boot", 0, "UNINITIALIZED", 0)

\* A buffer as audio_buffer_alloc returns it right after
\* audio_buffer_pool_init: used == 0, the data region holds zero bytes
\* (audio_buffers.c:64-72, 118-122).
BufAtAlloc ==
    /\ abuf = [data |-> [i \in 1..BufBytes |-> 0], used |-> 0,
               size |-> BufBytes]
    /\ astep = [op |-> "alloc", len |-> 0, ret |-> 0, out |-> <<>>,
                used0 |-> 0, fifo0 |-> <<>>]
    /\ afifo = <<>>

\* No audio_playback_thread exists at boot and no pulse was set
\* (audioplay.c:61-66).
ThreadAtBoot ==
    /\ pt = [pc |-> "none", next_sample_time |-> 0, start |-> 0, k |-> 0,
             emitted |-> 0, starved |-> FALSE, recovered |-> FALSE]
    /\ wr = [op |-> "none", stage |-> "idle", len |-> 0, current_size |-> 0,
             free |-> 0, ret |-> 0]
    /\ clock = 0
    /\ pwm = [filter_prev_sample |-> 32768, by |-> "none", sample |-> 0,
              pulse_width |-> 0]

InitWith(h) ==
    /\ RingAfterInit(h)
    /\ PoolAfterInit
    /\ WavAtBoot
    /\ SysAtBoot("audiosys")
    /\ BufAtAlloc
    /\ ThreadAtBoot

BootInit ==
    /\ RingAfterInit(NoHistory)
    /\ PoolAtBoot
    /\ WavAtBoot
    /\ SysAtBoot("audiosys")
    /\ BufAtAlloc
    /\ ThreadAtBoot

\* Boot of either firmware image.
SysInit ==
    /\ RingAfterInit(NoHistory)
    /\ PoolAfterInit
    /\ WavAtBoot
    /\ \E b \in Builds : SysAtBoot(b)
    /\ BufAtAlloc
    /\ ThreadAtBoot

\* The history is not kept: the behaviours are unbounded.
Init == InitWith(NoHistory)

\* The history is kept, for at most MaxBytes offered bytes.
RWInit == InitWith([NoHistory EXCEPT !.rec = TRUE])

\* ---- circular_buffers.c: non-blocking calls ----------------------------
\* circular_buffer_write(cb, data, n), lines 35-69
circular_buffer_write(t, n) ==
    /\ pc[t] = "idle"
    /\ CanOffer(n)
    /\ LET data == Payload(n)
           to_write == ToWrite(cb, n)
           h == Offered(n, SubSz(cb.size, cb.count))
       IN  IF n = 0 \/ to_write = 0
           THEN /\ UNCHANGED <<cb, pc, wokeBy>>
                /\ hist' = h
                /\ last' = Step("write", t, n, data, 0, FALSE, "none")
           ELSE /\ cb' = RingStore(cb, data, to_write)
                /\ \E r \in Signal(pc, wokeBy, NotEmptyWaiters(pc)) :
                       pc' = r[1] /\ wokeBy' = r[2]
                /\ hist' = Accepted(h, SubSeq(data, 1, to_write))
                /\ last' = Step("write", t, n, data, to_write, FALSE, "none")
    /\ UNCHANGED <<arg, streaming, poolVars, wavVars, sysVars, bufVars, thrVars>>

\* circular_buffer_read(cb, out, n), lines 110-143
circular_buffer_read(t, n) ==
    /\ pc[t] = "idle"
    /\ LET to_read == ToRead(cb, n)
           out == RingLoad(cb, to_read)
       IN  IF n = 0 \/ to_read = 0
           THEN /\ UNCHANGED <<cb, pc, wokeBy, hist>>
                /\ last' = Step("read", t, n, <<>>, 0, FALSE, "none")
           ELSE /\ cb' = RingDrop(cb, to_read)
                /\ \E r \in Signal(pc, wokeBy, NotFullWaiters(pc)) :
                       pc' = r[1] /\ wokeBy' = r[2]
                /\ hist' = Delivered(hist, out)
                /\ last' = Step("read", t, n, out, to_read, FALSE, "none")
    /\ UNCHANGED <<arg, streaming, poolVars, wavVars, sysVars, bufVars, thrVars>>

\* ---- circular_buffers.c: blocking calls --------------------------------
\* Lines 81-107 from the loop condition on, run by t with the mutex held:
\* either t pends on not_full, or it stores and returns.
WriteLoop(t, data, h) ==
    IF MustWaitForSpace(cb, wokeBy[t])
    THEN /\ pc' = [pc EXCEPT ![t] = "waiting"]
         /\ arg' = [arg EXCEPT ![t] = data]
         /\ wokeBy' = [wokeBy EXCEPT ![t] = "none"]
         /\ hist' = h
         /\ last' = Step("write_timeout.wait", t, Len(data), data, 0, FALSE, wokeBy[t])
         /\ UNCHANGED cb
    ELSE LET to_write == ToWrite(cb, Len(data))
         IN  /\ cb' = RingStore(cb, data, to_write)
             /\ \E r \in Signal([pc EXCEPT ![t] = "idle"],
                                [wokeBy EXCEPT ![t] = "none"], NotEmptyWaiters(pc)) :
                    pc' = r[1] /\ wokeBy' = r[2]
             /\ arg' = [arg EXCEPT ![t] = <<>>]
             /\ hist' = Accepted(h, SubSeq(data, 1, to_write))
             /\ last' = Step("write_timeout", t, Len(data), data, to_write, FALSE,
                             wokeBy[t])

\* circular_buffer_write_timeout(cb, data, n, timeout), lines 71-108, up to
\* its return or its first k_condvar_wait
circular_buffer_write_timeout(t, n) ==
    /\ pc[t] = "idle"
    /\ CanOffer(n)
    /\ IF n = 0
       THEN /\ UNCHANGED <<cb, pc, arg, wokeBy, hist>>
            /\ last' = Step("write_timeout", t, 0, <<>>, 0, FALSE, "none")
       ELSE WriteLoop(t, Payload(n), Offered(n, SubSz(cb.size, cb.count)))
    /\ UNCHANGED <<streaming, poolVars, wavVars, sysVars, bufVars, thrVars>>

\* k_condvar_wait returned 0 (line 82): the loop condition is evaluated again
write_timeout_wake(t) ==
    /\ t \in Producers
    /\ pc[t] = "woken"
    /\ WriteLoop(t, arg[t], hist)
    /\ UNCHANGED <<streaming, poolVars, wavVars, sysVars, bufVars, thrVars>>

\* k_condvar_wait returned -EAGAIN (lines 83-86)
write_timeout_expire(t) ==
    /\ t \in Producers
    /\ pc[t] = "waiting"
    /\ pc' = [pc EXCEPT ![t] = "idle"]
    /\ arg' = [arg EXCEPT ![t] = <<>>]
    /\ last' = Step("write_timeout", t, Len(arg[t]), arg[t], 0, TRUE, "none")
    /\ UNCHANGED <<cb, wokeBy, streaming, hist, poolVars, wavVars, sysVars, bufVars, thrVars>>

\* Lines 155-180 from the loop condition on.
ReadLoop(t, n) ==
    IF MustWaitForData(cb, wokeBy[t])
    THEN /\ pc' = [pc EXCEPT ![t] = "waiting"]
         /\ arg' = [arg EXCEPT ![t] = n]
         /\ wokeBy' = [wokeBy EXCEPT ![t] = "none"]
         /\ last' = Step("read_timeout.wait", t, n, <<>>, 0, FALSE, wokeBy[t])
         /\ UNCHANGED <<cb, hist>>
    ELSE LET to_read == ToRead(cb, n)
             out == RingLoad(cb, to_read)
         IN  /\ cb' = RingDrop(cb, to_read)
             /\ \E r \in Signal([pc EXCEPT ![t] = "idle"],
                                [wokeBy EXCEPT ![t] = "none"], NotFullWaiters(pc)) :
                    pc' = r[1] /\ wokeBy' = r[2]
             /\ arg' = [arg EXCEPT ![t] = 0]
             /\ hist' = Delivered(hist, out)
             /\ last' = Step("read_timeout", t, n, out, to_read, FALSE, wokeBy[t])

\* circular_buffer_read_timeout(cb, out, n, timeout), lines 145-181
circular_buffer_read_timeout(t, n) ==
    /\ pc[t] = "idle"
    /\ IF n = 0
       THEN /\ UNCHANGED <<cb, pc, arg, wokeBy, hist>>
            /\ last' = Step("read_timeout", t, 0, <<>>, 0, FALSE, "none")
       ELSE ReadLoop(t, n)
    /\ UNCHANGED <<streaming, poolVars, wavVars, sysVars, bufVars, thrVars>>

\* k_condvar_wait returned 0 (line 156)
read_timeout_wake(t) ==
    /\ t \in Consumers
    /\ pc[t] = "woken"
    /\ ReadLoop(t, arg[t])
    /\ UNCHANGED <<streaming, poolVars, wavVars, sysVars, bufVars, thrVars>>

\* k_condvar_wait returned -EAGAIN (lines 157-160)
read_timeout_expire(t) ==
    /\ t \in Consumers
    /\ pc[t] = "waiting"
    /\ pc' = [pc EXCEPT ![t] = "idle"]
    /\ arg' = [arg EXCEPT ![t] = 0]
    /\ last' = Step("read_timeout", t, arg[t], <<>>, 0, TRUE, "none")
    /\ UNCHANGED <<cb, wokeBy, streaming, hist, poolVars, wavVars, sysVars, bufVars, thrVars>>

\* ---- control thread ----------------------------------------------------
\* circular_buffers.c:241-246: what circular_buffer_clear does to the ring
Cleared(c) == [c EXCEPT !.head = 0, !.tail = 0, !.count = 0]

\* Mutant of ClearWakes: the broadcast is missing.
ClearWakes_Nobody(p) == {}

\* circular_buffers.c:245: the threads circular_buffer_clear makes ready
ClearWakes(p) == NotFullWaiters(p)

ClearStep(op) ==
    /\ cb' = Cleared(cb)
    /\ LET r == Broadcast(pc, wokeBy, ClearWakes(pc), "clear")
       IN  pc' = r[1] /\ wokeBy' = r[2]
    /\ last' = Step(op, Control, 0, <<>>, 0, FALSE, "none")

\* circular_buffer_clear(cb), lines 235-249 (bt_disconnected_callback and the
\* STOP command of bt_audio_control_callback call it directly)
circular_buffer_clear ==
    /\ ClearStep("clear")
    /\ UNCHANGED <<arg, streaming, hist, poolVars, wavVars, sysVars, bufVars, thrVars>>

\* circular_buffer_cleanup(cb), lines 251-259
circular_buffer_cleanup ==
    /\ ClearStep("cleanup")
    /\ UNCHANGED <<arg, streaming, hist, poolVars, wavVars, sysVars, bufVars, thrVars>>

\* bluetooth.c:317-339, on an initialized and connected session
bluetooth_audio_start ==
    /\ streaming' = TRUE
    /\ last' = Step("start", Control, 0, <<>>, 0, FALSE, "none")
    /\ UNCHANGED <<cb, pc, arg, wokeBy, hist, poolVars, wavVars, sysVars, bufVars, thrVars>>

\* bluetooth.c:344-358
bluetooth_audio_stop ==
    /\ IF ~streaming
       THEN /\ last' = Step("stop.noop", Control, 0, <<>>, 0, FALSE, "none")
            /\ UNCHANGED <<cb, pc, wokeBy, streaming>>
       ELSE /\ streaming' = FALSE
            /\ ClearStep("stop")
    /\ UNCHANGED <<arg, hist, poolVars, wavVars, sysVars, bufVars, thrVars>>

\* circular_buffer_init(cb, memory, size), lines 15-33, for a new session on
\* the same memory: no thread is inside a call of the old session
circular_buffer_init(size) ==
    /\ \A t \in Threads : pc[t] = "idle"
    /\ IF size = 0
       THEN /\ last' = Step("init", Control, size, <<>>, -EINVAL, FALSE, "none")
            /\ UNCHANGED cb
       ELSE /\ cb' = NewRing(cb.buffer, size)
            /\ last' = Step("init", Control, size, <<>>, 0, FALSE, "none")
    /\ UNCHANGED <<pc, arg, wokeBy, streaming, hist, poolVars, wavVars, sysVars, bufVars, thrVars>>

\* ---- specifications -----------------------------------------------------
Lens == 0..MaxLen

Write == \E t \in Producers, n \in Lens : circular_buffer_write(t, n)
Read == \E t \in Consumers, n \in Lens : circular_buffer_read(t, n)
WriteTimeout == \E t \in Producers, n \in Lens : circular_buffer_write_timeout(t, n)
WriteWake == \E t \in Producers : write_timeout_wake(t)
WriteExpire == \E t \in Producers : write_timeout_expire(t)
ReadTimeout == \E t \in Consumers, n \in Lens : circular_buffer_read_timeout(t, n)
ReadWake == \E t \in Consumers : read_timeout_wake(t)
ReadExpire == \E t \in Consumers : read_timeout_expire(t)
ReInit == \E size \in {0, CapSz} : circular_buffer_init(size)

\* Producers and consumers only: no clear, no new session.
RWNext ==
    \/ Write
    \/ Read
    \/ WriteTimeout
    \/ WriteWake
    \/ WriteExpire
    \/ ReadTimeout
    \/ ReadWake
    \/ ReadExpire

Next ==
    \/ Write
    \/ Read
    \/ WriteTimeout
    \/ WriteWake
    \/ WriteExpire
    \/ ReadTimeout
    \/ ReadWake
    \/ ReadExpire
    \/ circular_buffer_clear
    \/ circular_buffer_cleanup
    \/ bluetooth_audio_start
    \/ bluetooth_audio_stop
    \/ ReInit

Spec == Init /\ [][Next]_vars

RWSpec == RWInit /\ [][RWNext]_vars

\* The scheduler runs every ready thread and every timer expires: a thread
\* that stays pended on a condition variable times out, and a thread that was
\* made ready takes the mutex and goes on.
FairSpec ==
    /\ Init
    /\ [][Next]_vars
    /\ \A t \in Producers :
           WF_vars(write_timeout_expire(t)) /\ WF_vars(write_timeout_wake(t))
    /\ \A t \in Consumers :
           WF_vars(read_timeout_expire(t)) /\ WF_vars(read_timeout_wake(t))

\* ---- claims on the ring ---------------------------------------------

\* C1: as long as no write was longer than the free space at the time of the
\* call, every byte passed to a write was accepted and the bytes returned by
\* the reads are, in order, a prefix of the bytes written, also when head or
\* tail wrapped past the end of the backing array.
C1_ReadsArePrefixOfWrites ==
    ~hist.overlong =>
        /\ hist.accepted = [i \in 1..hist.nxt |-> i]
        /\ IsPrefix(hist.delivered, [i \in 1..hist.nxt |-> i])

\* A read whose copy was split at the physical end, after more bytes than the
\* capacity went through the ring, no write having been cut short.
C1_Witness ==
    /\ ~hist.overlong
    /\ last.op = "read"
    /\ last.ret >= 2
    /\ cb.tail > 0 /\ cb.tail < last.ret
    /\ Len(hist.delivered) > CapSz

\* C2: in every reachable state 0 <= size_get() <= C and
\* size_get() + space_get() == C.
C2_SizePlusSpace ==
    /\ circular_buffer_size_get(cb) >= 0
    /\ circular_buffer_size_get(cb) <= cb.size
    /\ circular_buffer_size_get(cb) + circular_buffer_space_get(cb) = cb.size

\* The ring is full after a blocked producer, woken by a clear, completed.
C2_Witness ==
    /\ last.op = "write_timeout"
    /\ last.wake = "clear"
    /\ cb.count = cb.size

\* C3: under every interleaving of producers and consumers, the bytes
\* delivered followed by the bytes still in the ring are exactly the bytes
\* accepted, in order: nothing accepted is lost, duplicated or reordered.
C3_Fifo ==
    /\ hist.accepted = hist.delivered \o Content(cb)
    /\ IsPrefix(hist.delivered, hist.accepted)

\* A consumer that was blocked, then signalled by a write, got bytes while a
\* producer is blocked on the full ring.
C3_Witness ==
    /\ last.op = "read_timeout"
    /\ last.wake = "signal"
    /\ last.ret > 0
    /\ Len(hist.delivered) > CapSz

\* C4: every blocking call with a finite timeout eventually returns.
C4_BlockedCallReturns ==
    \A t \in Threads : (pc[t] = "waiting") ~> (pc[t] = "idle")

\* C5: stop() and cleanup() leave count == 0 and no thread blocked.
C5_StopWakesEveryone ==
    last.op \in {"stop", "cleanup"} =>
        /\ cb.count = 0
        /\ \A t \in Threads : pc[t] # "waiting"

\* C6: circular_buffer_write stores exactly the first min(len, capacity -
\* count) bytes and returns that number; on a full ring it returns 0, the ring
\* stays full and head, tail, count and the unread bytes do not change.
C6_WriteFrame ==
    [][last'.op = "write" =>
        LET n == Min(last'.len, cb.size - cb.count)
        IN  /\ last'.ret = n
            /\ cb'.count = cb.count + n
            /\ cb'.tail = cb.tail
            /\ cb'.head = (cb.head + n) % cb.size
            /\ Content(cb') = Content(cb) \o SubSeq(last'.data, 1, n)
            /\ circular_buffer_is_full(cb) =>
                   /\ last'.ret = 0
                   /\ circular_buffer_is_full(cb')
                   /\ cb'.head = cb.head
                   /\ Content(cb') = Content(cb)]_vars

\* A write on a full ring returned 0.
C6_Witness ==
    /\ last.op = "write"
    /\ last.len > 0
    /\ last.ret = 0
    /\ circular_buffer_is_full(cb)
    /\ Len(hist.delivered) > 0

\* C7 as stated: a blocking call returns 0 only after a wait that timed out.
C7_ZeroOnlyAfterTimeout ==
    (last.op \in {"write_timeout", "read_timeout"} /\ last.ret = 0) => last.timedout

\* C7 as amended: the full / empty condition is checked again after every
\* wake-up, so that write_timeout stores nothing while the ring is full and
\* read_timeout returns nothing while it is empty; a woken thread that finds
\* the condition still true waits again; and a call with len > 0 returns 0
\* only after a wait that timed out.
C7_RecheckAfterWake ==
    [][/\ last'.op \in {"write_timeout", "write_timeout.wait"} /\ cb.count = cb.size
            => cb' = cb /\ last'.ret = 0
       /\ last'.op \in {"read_timeout", "read_timeout.wait"} /\ cb.count = 0
            => cb' = cb /\ last'.ret = 0
       /\ \A t \in Producers :
              pc[t] = "woken" /\ pc'[t] # "woken" /\ cb.count = cb.size
                  => pc'[t] = "waiting"
       /\ \A t \in Consumers :
              pc[t] = "woken" /\ pc'[t] # "woken" /\ cb.count = 0
                  => pc'[t] = "waiting"
       /\ last'.op \in {"write_timeout", "read_timeout"}
              /\ last'.ret = 0 /\ last'.len > 0
            => last'.timedout]_vars

\* A producer woken by a signal found the ring full again and waits again.
C7_Witness ==
    /\ last.op = "write_timeout.wait"
    /\ last.wake = "signal"
    /\ cb.count = cb.size

\* The steps of circular_buffer_clear, alone or from stop / cleanup.
IsClear(op) == op \in {"clear", "cleanup", "stop"}

\* C8 as stated: clear resets head, tail and count and wakes every blocked
\* producer, and every producer it woke completes its write.
C8_WokenProducersComplete ==
    [][/\ IsClear(last'.op) =>
              /\ cb'.head = 0 /\ cb'.tail = 0 /\ cb'.count = 0
              /\ \A t \in Producers : pc[t] = "waiting" => pc'[t] = "woken"
       /\ \A t \in Producers :
              pc[t] = "woken" /\ wokeBy[t] = "clear" /\ pc'[t] # "woken"
                  => pc'[t] = "idle" /\ last'.ret > 0 /\ ~last'.timedout]_vars

\* C8 as amended: clear resets head, tail and count and wakes every blocked
\* producer; a producer it woke completes its write when it finds the ring
\* not full, and waits again when another writer filled the ring first.
C8_ClearWakesProducers ==
    [][/\ IsClear(last'.op) =>
              /\ cb'.head = 0 /\ cb'.tail = 0 /\ cb'.count = 0
              /\ \A t \in Producers : pc[t] = "waiting" => pc'[t] = "woken"
       /\ \A t \in Producers :
              pc[t] = "woken" /\ wokeBy[t] = "clear" /\ pc'[t] # "woken"
                  => IF cb.count < cb.size
                     THEN /\ pc'[t] = "idle"
                          /\ last'.ret = Min(Len(arg[t]), cb.size - cb.count)
                          /\ last'.ret > 0
                          /\ ~last'.timedout
                     ELSE pc'[t] = "waiting"]_vars

\* A producer woken by a clear completed its write.
C8_Witness ==
    /\ last.op = "write_timeout"
    /\ last.wake = "clear"
    /\ last.ret > 0

\* ---- audio_buffers.c: the pool --------------------------------------
\* The blocks on the slab's free list: those reached from free_list through
\* the link words.
RECURSIVE Reach(_, _, _)
Reach(b, link, seen) ==
    IF b = NULL \/ b \in seen THEN seen ELSE Reach(link[b], link, seen \cup {b})

FreeSlots == Reach(slab.free_list, slab.link, {})

\* The callers pended in k_mem_slab_alloc.
SlabWaiters == {c \in Callers : task[c].pc = "pending"}

\* k_mem_slab_free without a pended thread: the block becomes the head of the
\* free list (audio_buffers.c:158)
SlabPush(sl, b) ==
    [sl EXCEPT !.link[b] = sl.free_list, !.free_list = b,
               !.num_used = SubSz(sl.num_used, 1)]

\* k_mem_slab_alloc with a free block: the head is taken (audio_buffers.c:93)
SlabPop(sl) ==
    [sl EXCEPT !.free_list = sl.link[sl.free_list],
               !.num_used = (sl.num_used + 1) % SizeMod]

\* Mutant of ZeroFill: the data region is not zeroed.
ZeroFill_DataKept(b) == [b EXCEPT !.used = 0, !.flags = 0]

\* audio_buffer_free, lines 152-155: memset of the data region, used, flags
ZeroFill(b) ==
    [b EXCEPT !.data = [i \in 1..BufWords |-> "zero"], !.used = 0, !.flags = 0]

\* Mutant of ResetBuffer: the flags are kept.
ResetBuffer_FlagsKept(b) == [b EXCEPT !.used = 0]

\* audio_buffer_alloc, lines 118-122: used and flags (sequence and timestamp
\* are not modelled); the data region is left as it is
ResetBuffer(b) == [b EXCEPT !.used = 0, !.flags = 0]

\* audio_buffer_clear, lines 246-255
audio_buffer_clear(b) == [b EXCEPT !.used = 0, !.flags = 0]

\* k_mem_slab_free stores the old head of the free list in the first word of
\* the block it pushes; a NULL pointer is a word of zero bytes.
LinkWord(b, next) ==
    [b EXCEPT !.data[1] = IF next = NULL THEN "zero" ELSE "link"]

\* k_mem_slab_alloc reads the new head of the free list from the first word of
\* the block it takes.  When a holder has written over that word the pointer
\* is whatever those bytes are.
NextFree(sl, bf) ==
    LET word == bf[sl.free_list].data[1]
    IN  IF word = "pcm" THEN Slots \cup {NULL}
        ELSE IF word = "zero" THEN {NULL}
        ELSE {sl.link[sl.free_list]}

\* A run that starts at boot is followed for MaxBootOps calls on the pool.
MayCall == life.boot => life.ops < MaxBootOps

Called(l) == IF l.boot THEN [l EXCEPT !.ops = @ + 1] ELSE l

\* audio_buffer_alloc(timeout), lines 85-101: up to the end of
\* k_mem_slab_alloc.  wait is FALSE for K_NO_WAIT.
audio_buffer_alloc(c, wait) ==
    /\ task[c].pc = "idle"
    /\ pool.buffers_allocated < MaxAllocs
    /\ pool.allocation_failures < MaxFails
    /\ MayCall
    /\ life' = Called(life)
    /\ IF ~pool.initialized
       THEN /\ pstep' = [op |-> "alloc", who |-> c, buf |-> NULL, ret |-> NULL]
            /\ UNCHANGED <<slab, task>>
       ELSE IF slab.free_list # NULL
       THEN /\ \E next \in NextFree(slab, bufs) :
                    slab' = [SlabPop(slab) EXCEPT !.free_list = next]
            /\ task' = [task EXCEPT ![c].pc = "allocated", ![c].mem = slab.free_list]
            /\ pstep' = [op |-> "alloc.slab", who |-> c, buf |-> slab.free_list,
                         ret |-> 0]
       ELSE /\ task' = [task EXCEPT ![c].pc = IF wait THEN "pending" ELSE "failed"]
            /\ pstep' = [op |-> "alloc.slab", who |-> c, buf |-> NULL, ret |-> -1]
            /\ UNCHANGED slab
    /\ UNCHANGED <<pool, issued, bufs, ringVars, wavVars, sysVars, bufVars, thrVars>>

\* k_mem_slab_alloc timed out (line 93 returns -EAGAIN)
alloc_timeout(c) ==
    /\ task[c].pc = "pending"
    /\ task' = [task EXCEPT ![c].pc = "failed"]
    /\ pstep' = [op |-> "alloc.timeout", who |-> c, buf |-> NULL, ret |-> -1]
    /\ UNCHANGED <<pool, slab, issued, bufs, life, ringVars, wavVars, sysVars, bufVars, thrVars>>

\* audio_buffer_alloc, lines 94-101: the failure is counted, NULL is returned
alloc_failed(c) ==
    /\ task[c].pc = "failed"
    /\ pool' = [pool EXCEPT !.allocation_failures = (@ + 1) % SizeMod]
    /\ task' = [task EXCEPT ![c].pc = "idle"]
    /\ pstep' = [op |-> "alloc", who |-> c, buf |-> NULL, ret |-> NULL]
    /\ UNCHANGED <<slab, issued, bufs, life, ringVars, wavVars, sysVars, bufVars, thrVars>>

\* audio_buffer_alloc, lines 103-129: the structure of the block is found and
\* reset, the allocation is counted, the handle is returned
alloc_done(c) ==
    /\ task[c].pc = "allocated"
    /\ bufs' = [bufs EXCEPT ![task[c].mem] = ResetBuffer(@)]
    /\ pool' = [pool EXCEPT !.buffers_allocated = (@ + 1) % SizeMod]
    /\ task' = [task EXCEPT ![c].pc = "idle", ![c].mem = NULL,
                            ![c].held = @ \cup {task[c].mem}]
    /\ issued' = issued \cup {task[c].mem}
    /\ pstep' = [op |-> "alloc", who |-> c, buf |-> task[c].mem,
                 ret |-> task[c].mem]
    /\ UNCHANGED <<slab, life, ringVars, wavVars, sysVars, bufVars, thrVars>>

\* audio_buffer_free(buffer), lines 132-158: up to the end of k_mem_slab_free.
\* h is NULL, a handle of the pool, or MAX_AUDIO_BUFFERS + 1 for a pointer
\* that is no handle of the pool.
audio_buffer_free(c, h) ==
    /\ task[c].pc = "idle"
    /\ pool.buffers_freed < MaxFrees
    /\ MayCall
    /\ life' = Called(life)
    /\ IF h = NULL \/ ~pool.initialized \/ h \notin Slots
       THEN /\ pstep' = [op |-> "free", who |-> c, buf |-> h, ret |-> -EINVAL]
            /\ UNCHANGED <<slab, task, bufs>>
       ELSE /\ pstep' = [op |-> "free.slab", who |-> c, buf |-> h, ret |-> 0]
            /\ IF slab.free_list = NULL /\ SlabWaiters # {}
               THEN /\ \E w \in SlabWaiters :
                        task' = [task EXCEPT ![w].pc = "allocated", ![w].mem = h,
                                             ![c].pc = "freed",
                                             ![c].held = @ \ {h}]
                    /\ bufs' = [bufs EXCEPT ![h] = ZeroFill(@)]
                    /\ UNCHANGED slab
               ELSE /\ slab' = SlabPush(slab, h)
                    /\ bufs' = [bufs EXCEPT
                                   ![h] = LinkWord(ZeroFill(@), slab.free_list)]
                    /\ task' = [task EXCEPT ![c].pc = "freed", ![c].held = @ \ {h}]
    /\ UNCHANGED <<pool, issued, ringVars, wavVars, sysVars, bufVars, thrVars>>

\* audio_buffer_free, lines 160-165: the release is counted
free_done(c) ==
    /\ task[c].pc = "freed"
    /\ pool' = [pool EXCEPT !.buffers_freed = (@ + 1) % SizeMod]
    /\ task' = [task EXCEPT ![c].pc = "idle"]
    /\ pstep' = [op |-> "free", who |-> c, buf |-> NULL, ret |-> 0]
    /\ UNCHANGED <<slab, issued, bufs, life, ringVars, wavVars, sysVars, bufVars, thrVars>>

\* audio_buffer_pool_get_stats(stats), lines 257-277
audio_buffer_pool_get_stats ==
    LET in_use == SubSz(pool.buffers_allocated, pool.buffers_freed)
    IN  [total_buffers |-> MAX_AUDIO_BUFFERS,
         buffers_allocated |-> pool.buffers_allocated,
         buffers_freed |-> pool.buffers_freed,
         allocation_failures |-> pool.allocation_failures,
         buffers_in_use |-> in_use,
         free_buffers |-> SubSz(MAX_AUDIO_BUFFERS, in_use)]

\* audio_buffer_pool_init(), lines 47-83.  It is not called while a thread is
\* pended on the slab.
audio_buffer_pool_init ==
    /\ SlabWaiters = {}
    /\ MayCall
    /\ IF pool.initialized
       THEN /\ pstep' = [op |-> "pool_init", who |-> "main", buf |-> NULL,
                         ret |-> -EALREADY]
            /\ life' = Called(life)
            /\ UNCHANGED <<pool, slab, bufs>>
       ELSE /\ life.inits < MaxInits
            /\ slab' = [free_list |-> MAX_AUDIO_BUFFERS, num_used |-> 0,
                        link |-> [b \in Slots |-> b - 1]]
            /\ bufs' = [b \in Slots |-> InitBuffer(bufs[b], b - 1)]
            /\ pool' = [initialized |-> TRUE, buffers_allocated |-> 0,
                        buffers_freed |-> 0, allocation_failures |-> 0]
            /\ life' = [Called(life) EXCEPT !.inits = @ + 1]
            /\ pstep' = [op |-> "pool_init", who |-> "main", buf |-> NULL,
                         ret |-> 0]
    /\ UNCHANGED <<task, issued, ringVars, wavVars, sysVars, bufVars, thrVars>>

\* audio_buffer_pool_cleanup(), lines 279-295
audio_buffer_pool_cleanup ==
    /\ MayCall
    /\ life' = Called(life)
    /\ IF ~pool.initialized
       THEN UNCHANGED <<pool, bufs>>
       ELSE /\ bufs' = [b \in Slots |->
                           IF bufs[b].used > 0 THEN audio_buffer_clear(bufs[b])
                           ELSE bufs[b]]
            /\ pool' = [pool EXCEPT !.initialized = FALSE]
    /\ pstep' = [op |-> "pool_cleanup", who |-> "main", buf |-> NULL, ret |-> 0]
    /\ UNCHANGED <<slab, task, issued, ringVars, wavVars, sysVars, bufVars, thrVars>>

\* audio_buffer_write(buffer, data, len), lines 168-189, by a caller on a
\* handle it holds; len counts words.  The holder then sets buffer->flags to
\* fl (audio_buffers.h:34-39, 52).
audio_buffer_write(c, h, len, fl) ==
    /\ task[c].pc = "idle"
    /\ h \in task[c].held
    /\ MayCall
    /\ LET b == bufs[h]
           available == SubSz(BufWords, b.used)
           to_write == IF len > available THEN available ELSE len
       IN  IF len = 0 \/ to_write = 0
           THEN /\ pstep' = [op |-> "write", who |-> c, buf |-> h, ret |-> 0]
                /\ life' = Called(life)
                /\ UNCHANGED bufs
           ELSE /\ life.fills < MaxFills
                /\ bufs' = [bufs EXCEPT ![h] =
                       [b EXCEPT !.data = [i \in 1..BufWords |->
                                              IF i > b.used /\ i <= b.used + to_write
                                              THEN "pcm" ELSE b.data[i]],
                                 !.used = b.used + to_write,
                                 !.flags = fl]]
                /\ life' = [Called(life) EXCEPT !.fills = @ + 1]
                /\ pstep' = [op |-> "write", who |-> c, buf |-> h, ret |-> to_write]
    /\ UNCHANGED <<pool, slab, task, issued, ringVars, wavVars, sysVars, bufVars, thrVars>>

Alloc == \E c \in Callers, wait \in BOOLEAN : audio_buffer_alloc(c, wait)
AllocTimeout == \E c \in Callers : alloc_timeout(c)
AllocFailed == \E c \in Callers : alloc_failed(c)
AllocDone == \E c \in Callers : alloc_done(c)
\* A caller passes NULL, a pointer from elsewhere, or a handle that
\* audio_buffer_alloc returned at some time, to it or to another caller.
Free ==
    \E c \in Callers, h \in issued \cup {NULL, MAX_AUDIO_BUFFERS + 1} :
        audio_buffer_free(c, h)
FreeDone == \E c \in Callers : free_done(c)
PoolInit == audio_buffer_pool_init
PoolCleanup == audio_buffer_pool_cleanup
BufWrite ==
    \E c \in Callers, h \in Slots, len \in 0..BufWords, fl \in {0, 1} :
        audio_buffer_write(c, h, len, fl)

PoolNext ==
    \/ Alloc
    \/ AllocTimeout
    \/ AllocFailed
    \/ AllocDone
    \/ Free
    \/ FreeDone

PoolSpec == Init /\ [][PoolNext]_vars

\* The whole life of the pool, from the static storage at boot.
PoolLifeNext ==
    \/ PoolNext
    \/ PoolInit
    \/ PoolCleanup
    \/ BufWrite

PoolLifeSpec == BootInit /\ [][PoolLifeNext]_vars

\* ---- claims on the pool ---------------------------------------------
Holders(s) == {c \in Callers : s \in task[c].held}

\* C9: every slot is either free or checked out to exactly one caller.
C9_FreeOrCheckedOutOnce ==
    \A s \in Slots :
        /\ Cardinality(Holders(s)) <= 1
        /\ ~(s \in FreeSlots /\ Holders(s) # {})

\* C10: the statistics report buffers_in_use == buffers_allocated -
\* buffers_freed and free_buffers + buffers_in_use == total_buffers.
C10_StatsConservation ==
    LET s == audio_buffer_pool_get_stats
    IN  /\ s.buffers_in_use = s.buffers_allocated - s.buffers_freed
        /\ s.free_buffers + s.buffers_in_use = s.total_buffers

\* C11: every audio_buffer_alloc that returns NULL, after a timeout on the
\* slab or on a pool that is not initialized, increments allocation_failures
\* by exactly 1 and leaves buffers_allocated and buffers_freed unchanged.
C11_FailureCounted ==
    [][pstep'.op = "alloc" /\ pstep'.ret = NULL =>
           /\ pool'.allocation_failures = pool.allocation_failures + 1
           /\ pool'.buffers_allocated = pool.buffers_allocated
           /\ pool'.buffers_freed = pool.buffers_freed]_vars

\* C12 as stated: after a successful audio_buffer_free the whole data region
\* of the handle is zero and used == 0, and an audio_buffer_alloc that returns
\* a slot hands it out with no byte of a previous holder, used == 0 and flags
\* cleared.
C12_ZeroAfterFree ==
    [][/\ pstep'.op = "free.slab" =>
              /\ \A i \in 1..BufWords : bufs'[pstep'.buf].data[i] = "zero"
              /\ bufs'[pstep'.buf].used = 0
       /\ pstep'.op = "alloc" /\ pstep'.ret # NULL =>
              /\ \A i \in 1..BufWords : bufs'[pstep'.ret].data[i] # "pcm"
              /\ bufs'[pstep'.ret].used = 0
              /\ bufs'[pstep'.ret].flags = 0]_vars

\* C12 as amended: after a successful audio_buffer_free used == 0, flags are
\* cleared and every word of the data region is zero, except that the first
\* word holds the slab's free-list link when the block was pushed on a free
\* list that was not empty; audio_buffer_alloc hands a slot out with
\* used == 0 and flags cleared and leaves the data region as it finds it.
C12_ZeroExceptLinkWord ==
    [][/\ pstep'.op = "free.slab" =>
              LET b == bufs'[pstep'.buf]
                  pushed == slab'.free_list = pstep'.buf /\ slab' # slab
              IN  /\ \A i \in 2..BufWords : b.data[i] = "zero"
                  /\ b.data[1] = IF pushed /\ slab.free_list # NULL
                                 THEN "link" ELSE "zero"
                  /\ b.used = 0
                  /\ b.flags = 0
       /\ pstep'.op = "alloc" /\ pstep'.ret # NULL =>
              /\ bufs'[pstep'.ret].data = bufs[pstep'.ret].data
              /\ bufs'[pstep'.ret].used = 0
              /\ bufs'[pstep'.ret].flags = 0]_vars

\* A slot that was written to and freed is handed out again: its first word
\* holds the link of the slab, the rest is zero.
C12_Witness ==
    /\ pstep.op = "alloc"
    /\ pstep.ret # NULL
    /\ life.fills > 0
    /\ pool.buffers_freed > 0
    /\ bufs[pstep.ret].data[1] = "link"
    /\ \A i \in 2..BufWords : bufs[pstep.ret].data[i] = "zero"

\* ---- wav_decoder.c: the decoder ---------------------------------------
\* Byte i (counted from 0, as in C) of an input; a byte outside the input is
\* written -1: what is there is not defined.
ByteAt(data, i) == IF i < Len(data) THEN data[i + 1] ELSE -1

\* memcpy of a little-endian uint16_t / uint32_t from data + at
Rd16(data, at) == data[at + 1] + 256 * data[at + 2]

Rd32(data, at) ==
    data[at + 1] + 256 * data[at + 2] + 65536 * data[at + 3]
        + 16777216 * data[at + 4]

\* The bytes of a little-endian uint16_t / uint32_t, as a WAV writer stores them
LE16(v) == <<v % 256, (v \div 256) % 256>>

LE32(v) ==
    <<v % 256, (v \div 256) % 256, (v \div 65536) % 256, (v \div 16777216) % 256>>

RIFF == <<82, 73, 70, 70>>
WAVE == <<87, 65, 86, 69>>
FmtId == <<102, 109, 116, 32>>
DataId == <<100, 97, 116, 97>>
ListId == <<76, 73, 83, 84>>

\* wav_decoder_init, lines 68-73: the fields of the fmt chunk at ptr
ParseFormat(data, ptr) ==
    [format_tag |-> Rd16(data, ptr + 8),
     channels |-> Rd16(data, ptr + 10),
     sample_rate |-> Rd32(data, ptr + 12),
     bytes_per_sec |-> Rd32(data, ptr + 16),
     block_align |-> Rd16(data, ptr + 20),
     bits_per_sample |-> Rd16(data, ptr + 22)]

\* Mutant of ChunkStep: the padding byte after a chunk of odd size is not
\* skipped.
ChunkStep_NoPadding(chunk_size) == 8 + chunk_size

\* wav_decoder_init, lines 91-99: the distance to the next chunk
ChunkStep(chunk_size) == 8 + chunk_size + (chunk_size % 2)

\* wav_decoder_init, lines 54-100: the walk over the chunks from ptr with
\* remaining bytes left.  err is the error the walk returns with (0 for none),
\* oob tells that the walk went on to read behind the end of the input.
RECURSIVE HeaderWalk(_, _, _, _)
HeaderWalk(d, data, ptr, remaining) ==
    IF remaining < 8 THEN [dec |-> d, err |-> 0, oob |-> FALSE]
    ELSE IF ptr + 8 > Len(data) THEN [dec |-> d, err |-> 0, oob |-> TRUE]
    ELSE LET chunk_id == Rd32(data, ptr)
             chunk_size == Rd32(data, ptr + 4)
         IN  IF chunk_id = FMT_CHUNK_ID /\ chunk_size < 16
             THEN [dec |-> d, err |-> -EINVAL, oob |-> FALSE]
             ELSE IF chunk_id = FMT_CHUNK_ID /\ ptr + 24 > Len(data)
             THEN [dec |-> d, err |-> 0, oob |-> TRUE]
             ELSE IF chunk_id = DATA_CHUNK_ID
             THEN [dec |-> [d EXCEPT !.audio_data_offset = ptr + 8,
                                     !.audio_data_size = chunk_size],
                   err |-> 0, oob |-> FALSE]
             ELSE HeaderWalk(IF chunk_id = FMT_CHUNK_ID
                             THEN [d EXCEPT !.format = ParseFormat(data, ptr)]
                             ELSE d,
                             data, ptr + ChunkStep(chunk_size),
                             SubSz(remaining, ChunkStep(chunk_size)))

\* wav_decoder_init(decoder, data, data_len), lines 18-128, on a decoder d:
\* the decoder it leaves and the value it returns
InitDecoder(d, data) ==
    IF Len(data) = 0 THEN [dec |-> d, ret |-> -EINVAL, oob |-> FALSE]
    ELSE
    LET z == [ZeroDecoder EXCEPT !.data = data, !.data_len = Len(data)]
    IN  IF Len(data) < WAV_HEADER_MIN
        THEN [dec |-> z, ret |-> -EINVAL, oob |-> FALSE]
        ELSE IF SubSeq(data, 1, 4) # RIFF
        THEN [dec |-> z, ret |-> -EINVAL, oob |-> FALSE]
        ELSE IF SubSeq(data, 9, 12) # WAVE
        THEN [dec |-> z, ret |-> -EINVAL, oob |-> FALSE]
        ELSE
        LET w == HeaderWalk(z, data, 12, Len(data) - 12)
            f == w.dec.format
        IN  IF w.err # 0 THEN [dec |-> w.dec, ret |-> w.err, oob |-> w.oob]
            ELSE IF w.dec.audio_data_offset = 0
            THEN [dec |-> w.dec, ret |-> -EINVAL, oob |-> w.oob]
            ELSE IF f.format_tag # 1
            THEN [dec |-> w.dec, ret |-> -ENOTSUP, oob |-> w.oob]
            ELSE IF f.channels = 0 \/ f.channels > 2
            THEN [dec |-> w.dec, ret |-> -ENOTSUP, oob |-> w.oob]
            ELSE IF f.bits_per_sample # 8 /\ f.bits_per_sample # 16
            THEN [dec |-> w.dec, ret |-> -ENOTSUP, oob |-> w.oob]
            ELSE [dec |-> [w.dec EXCEPT !.is_initialized = TRUE,
                                        !.position = w.dec.audio_data_offset],
                  ret |-> 0, oob |-> w.oob]

\* lines 147, 174 and 200: the end of the audio data, in size_t
DataEnd(d) == (d.audio_data_offset + d.audio_data_size) % SizeMod

\* wav_decoder_get_position, lines 185-192
wav_decoder_get_position(d) ==
    IF ~d.is_initialized THEN 0 ELSE SubSz(d.position, d.audio_data_offset)

\* wav_decoder_is_eof, lines 194-201
wav_decoder_is_eof(d) ==
    IF ~d.is_initialized THEN TRUE ELSE d.position >= DataEnd(d)

\* wav_decoder_get_total_size, lines 214-221
wav_decoder_get_total_size(d) ==
    IF ~d.is_initialized THEN 0 ELSE d.audio_data_size

\* wav_decoder_is_initialized, lines 243-246
wav_decoder_is_initialized(d) == d.is_initialized

\* Mutant of ReadLen: the length is not clamped to what is left.
ReadLen_NoClamp(d, buffer_size) == buffer_size

\* wav_decoder_read, lines 153-154: how many bytes a read copies
ReadLen(d, buffer_size) ==
    LET remaining == SubSz(DataEnd(d), d.position)
    IN  IF buffer_size > remaining THEN remaining ELSE buffer_size

\* ---- inputs of the decoder ------------------------------------------
\* The n audio bytes of a generated input
Pcm(n) == [i \in 1..n |-> 16 + i]

\* The body of a fmt chunk of fmt_size bytes (18 with the cbSize field)
FmtBody(tag, ch, rate, bits, fmt_size) ==
    SubSeq(LE16(tag) \o LE16(ch) \o LE32(rate)
               \o LE32(rate * ch * (bits \div 8)) \o LE16(ch * (bits \div 8))
               \o LE16(bits) \o <<0, 0>>,
           1, fmt_size)

\* A RIFF/WAVE container: fmt chunk, further chunks, and a chunk with
\* identifier data_id that declares `declared` bytes and carries payload
WavBytes(fmt_size, tag, ch, rate, bits, extra, data_id, declared, payload) ==
    LET body == WAVE \o FmtId \o LE32(fmt_size)
                    \o FmtBody(tag, ch, rate, bits, fmt_size) \o extra
                    \o data_id \o LE32(declared) \o payload
    IN  RIFF \o LE32(Len(body)) \o body

\* A LIST chunk of one byte, followed by its padding byte
OddChunk == ListId \o LE32(1) \o <<7, 0>>

Input(kind, why, bytes, payload) ==
    [kind |-> kind, why |-> why, bytes |-> bytes, payload |-> payload]

\* The mono 16-bit 44100 Hz container of n audio bytes with a 16-byte fmt chunk
Canonical(n) == WavBytes(16, 1, 1, 44100, 16, <<>>, DataId, n, Pcm(n))

\* Well-formed mono 16-bit 44100 Hz containers: with a fmt chunk of 16 or 18
\* bytes, with or without a LIST chunk before the data, of every length
ValidInputs ==
    {Input("valid", "", WavBytes(fs, 1, 1, 44100, 16, ex, DataId, n, Pcm(n)), Pcm(n)) :
        fs \in {16, 18}, ex \in {<<>>, OddChunk}, n \in 0..MaxPayload}

\* Inputs shorter than the 44 bytes of the smallest header
ShortInputs ==
    {Input("short", "", SubSeq(Canonical(2), 1, n), <<>>) :
        n \in {0, WAV_HEADER_MIN - 1}}

\* Inputs of 44 bytes or more that are not a supported container
BadInputs ==
    {Input("format", "riff", [Canonical(2) EXCEPT ![1] = 88], <<>>),
     Input("format", "wave", [Canonical(2) EXCEPT ![9] = 88], <<>>),
     Input("format", "fmt size",
           WavBytes(14, 1, 1, 44100, 16, <<>>, DataId, 2, Pcm(2)), <<>>),
     Input("format", "tag",
           WavBytes(16, 3, 1, 44100, 16, <<>>, DataId, 2, Pcm(2)), <<>>),
     Input("format", "channels",
           WavBytes(16, 1, 3, 44100, 16, <<>>, DataId, 2, Pcm(2)), <<>>),
     Input("format", "bits",
           WavBytes(16, 1, 1, 44100, 24, <<>>, DataId, 2, Pcm(2)), <<>>),
     Input("format", "no data",
           WavBytes(16, 1, 1, 44100, 16, <<>>, ListId, 2, Pcm(2)), <<>>)}

\* main.c:66-78, test_wav_data
test_wav_data ==
    <<82, 73, 70, 70, 36, 8, 0, 0,
      87, 65, 86, 69, 102, 109, 116, 32,
      16, 0, 0, 0, 1, 0, 1, 0,
      68, 172, 0, 0, 136, 88, 1, 0,
      2, 0, 16, 0, 100, 97, 116, 97,
      0, 8, 0, 0,
      0, 0, 0, 127, 255, 255, 0, 128,
      0, 0, 0, 127, 255, 255, 0, 128>>

Fixture ==
    Input("fixture", "", test_wav_data,
          SubSeq(test_wav_data, WAV_HEADER_MIN + 1, Len(test_wav_data)))

WavInputs == ValidInputs \cup ShortInputs \cup BadInputs \cup {Fixture}

\* Chunks of a stream: a container with its first audio bytes, or audio bytes
RawChunk(n) == [i \in 1..n |-> 128]

FeedChunks ==
    {Canonical(n) : n \in {0, MaxPayload}}
        \cup {RawChunk(n) : n \in {0, 1, WAV_HEADER_MIN, WAV_HEADER_MIN + 1}}

\* Offsets passed to wav_decoder_seek: around the audio data, and the largest
\* value of size_t
SeekOffsets == {0, 1, MaxPayload, MaxPayload + 1, SizeMod - 1}

\* ---- calls on the decoder -------------------------------------------
\* wav_decoder_init(&decoder, data, data_len), lines 18-128
wav_decoder_init(inp) ==
    LET r == InitDecoder(dec, inp.bytes)
    IN  /\ dec' = r.dec
        /\ wlast' = WStep("init", Len(inp.bytes), r.ret, r.oob, -1, 0, FALSE)
        /\ wgh' = IF r.dec = dec /\ Len(inp.bytes) = 0 THEN wgh
                  ELSE [src |-> inp, out |-> <<>>, seeked |-> FALSE]
        /\ UNCHANGED <<ringVars, poolVars, sysVars, bufVars, thrVars>>

\* wav_decoder_get_format(&decoder, &format), lines 130-138: format receives
\* dec.format when 0 is returned
wav_decoder_get_format ==
    /\ wlast' = WStep("get_format", 0, IF dec.is_initialized THEN 0 ELSE -EINVAL,
                      FALSE, -1, 0, FALSE)
    /\ UNCHANGED <<dec, wgh, ringVars, poolVars, sysVars, bufVars, thrVars>>

\* wav_decoder_read(&decoder, buffer, buffer_size), lines 140-165
wav_decoder_read(buffer_size) ==
    IF buffer_size = 0 \/ ~dec.is_initialized \/ dec.position >= DataEnd(dec)
    THEN /\ wlast' = WStep("read", buffer_size, 0, FALSE, -1, 0, FALSE)
         /\ UNCHANGED <<dec, wgh, ringVars, poolVars, sysVars, bufVars, thrVars>>
    ELSE LET to_read == ReadLen(dec, buffer_size)
             bytes == [i \in 1..to_read |-> ByteAt(dec.data, dec.position + i - 1)]
         IN  /\ dec' = [dec EXCEPT !.position = (@ + to_read) % SizeMod]
             /\ wlast' = WStep("read", buffer_size, to_read,
                               dec.position + to_read > dec.data_len, -1, 0, FALSE)
             /\ wgh' = IF wgh.seeked THEN wgh
                       ELSE [wgh EXCEPT !.out = @ \o bytes]
             /\ UNCHANGED <<ringVars, poolVars, sysVars, bufVars, thrVars>>

\* wav_decoder_seek(&decoder, offset), lines 167-183
wav_decoder_seek(offset) ==
    LET new_position == (dec.audio_data_offset + offset) % SizeMod
    IN  IF ~dec.is_initialized \/ new_position > DataEnd(dec)
        THEN /\ wlast' = WStep("seek", offset, -EINVAL, FALSE, -1, 0, FALSE)
             /\ UNCHANGED <<dec, wgh, ringVars, poolVars, sysVars, bufVars, thrVars>>
        ELSE /\ dec' = [dec EXCEPT !.position = new_position]
             /\ wlast' = WStep("seek", offset, 0, FALSE, -1, 0, FALSE)
             /\ wgh' = [wgh EXCEPT !.seeked = TRUE, !.out = <<>>]
             /\ UNCHANGED <<ringVars, poolVars, sysVars, bufVars, thrVars>>

\* wav_decoder_cleanup(&decoder), lines 233-241
wav_decoder_cleanup ==
    /\ dec' = ZeroDecoder
    /\ wlast' = WStep("cleanup", 0, 0, FALSE, -1, 0, FALSE)
    /\ wgh' = [src |-> NoInput, out |-> <<>>, seeked |-> FALSE]
    /\ UNCHANGED <<ringVars, poolVars, sysVars, bufVars, thrVars>>

\* wav_decoder_read_samples(&decoder, chunk_data, chunk_size, &audio_samples,
\* &samples_len), lines 248-290
wav_decoder_read_samples(chunk) ==
    LET chunk_size == Len(chunk)
        r == IF dec.is_initialized THEN [dec |-> dec, ret |-> 0, oob |-> FALSE]
             ELSE InitDecoder(dec, chunk)
        d == r.dec
        audio_start_in_chunk ==
            IF d.audio_data_offset < chunk_size THEN d.audio_data_offset ELSE 0
    IN  /\ dec' = d
        /\ wgh' = IF dec.is_initialized THEN wgh
                  ELSE [src |-> Input("feed", "", chunk, <<>>), out |-> <<>>,
                        seeked |-> FALSE]
        /\ wlast' =
               IF d.is_initialized /\ audio_start_in_chunk < chunk_size
               THEN WStep("read_samples", chunk_size,
                          chunk_size - audio_start_in_chunk, r.oob,
                          audio_start_in_chunk, chunk_size - audio_start_in_chunk,
                          dec.is_initialized)
               ELSE WStep("read_samples", chunk_size, 0, r.oob, -1, 0,
                          dec.is_initialized)
        /\ UNCHANGED <<ringVars, poolVars, sysVars, bufVars, thrVars>>

\* Once a call has read outside its input the behaviour of the program is
\* not defined any more, and the run is not followed further.
Defined == ~wlast.oob

WavInit == Defined /\ \E inp \in WavInputs : wav_decoder_init(inp)
WavGetFormat == Defined /\ wav_decoder_get_format
WavRead == Defined /\ \E n \in 0..MaxRead : wav_decoder_read(n)
WavSeek == Defined /\ \E offset \in SeekOffsets : wav_decoder_seek(offset)
WavCleanup == Defined /\ wav_decoder_cleanup
WavFeed == Defined /\ \E chunk \in FeedChunks : wav_decoder_read_samples(chunk)

WavNext ==
    \/ WavInit
    \/ WavGetFormat
    \/ WavRead
    \/ WavSeek
    \/ WavCleanup
    \/ WavFeed

WavSpec == Init /\ [][WavNext]_vars

\* ---- claims on the decoder ------------------------------------------
\* C13: a failed wav_decoder_init leaves the decoder not initialized, and the
\* value it returns for an input shorter than 44 bytes (InsufficientData)
\* differs from the value it returns for every input of 44 bytes or more that
\* it rejects (FormatError): wrong RIFF or WAVE marker, short fmt chunk, format
\* tag, channel count, bit depth, missing data chunk.
C13_FailuresClassified ==
    /\ \A b \in BadInputs : InitDecoder(ZeroDecoder, b.bytes).ret # 0
    /\ wlast.op = "init" /\ wlast.ret # 0 =>
           /\ ~wav_decoder_is_initialized(dec)
           /\ wlast.n < WAV_HEADER_MIN =>
                  \A b \in BadInputs :
                      InitDecoder(ZeroDecoder, b.bytes).ret # wlast.ret

\* C14: on a well-formed mono 16-bit 44100 Hz input with N audio bytes
\* wav_decoder_init succeeds and the format is 1 channel / 44100 Hz / 16 bits;
\* every wav_decoder_read of size n returns the next min(n, what is left)
\* audio bytes, so that the reads return the N bytes in their order, and when
\* all were returned read returns 0 and wav_decoder_is_eof is true.
C14_RoundTrip ==
    /\ [](wgh.src.kind = "valid" =>
              /\ wav_decoder_is_initialized(dec)
              /\ dec.format.channels = 1
              /\ dec.format.sample_rate = 44100
              /\ dec.format.bits_per_sample = 16
              /\ wlast.op = "init" /\ wlast.n = Len(wgh.src.bytes) => wlast.ret = 0
              /\ wlast.op = "get_format" => wlast.ret = 0
              /\ ~wgh.seeked =>
                     /\ IsPrefix(wgh.out, wgh.src.payload)
                     /\ wav_decoder_get_position(dec) = Len(wgh.out)
                     /\ wav_decoder_is_eof(dec) <=> wgh.out = wgh.src.payload)
    /\ [][wlast'.op = "read" /\ wgh.src.kind = "valid" /\ ~wgh.seeked =>
              LET left == Len(wgh.src.payload) - Len(wgh.out)
              IN  /\ wlast'.ret = Min(wlast'.n, left)
                  /\ Len(wgh'.out) = Len(wgh.out) + wlast'.ret
                  /\ ~wlast'.oob]_vars

\* A well-formed input with a LIST chunk and MaxPayload audio bytes was read
\* to its end, and the next read returned 0.
C14_Witness ==
    /\ wgh.src.kind = "valid"
    /\ Len(wgh.src.bytes) > WAV_HEADER_MIN + MaxPayload
    /\ Len(wgh.src.payload) = MaxPayload
    /\ ~wgh.seeked
    /\ wgh.out = wgh.src.payload
    /\ wlast.op = "read"
    /\ wlast.n > 0
    /\ wlast.ret = 0
    /\ wav_decoder_is_eof(dec)

\* C15: on the 60-byte fixture of main.c wav_decoder_init succeeds, the format
\* is mono / 44100 Hz / 16 bits, wav_decoder_get_total_size() is 16, the reads
\* return those 16 bytes and no read touches a byte outside the array.
C15_FixtureSixteenBytes ==
    wgh.src.kind = "fixture" =>
        /\ wav_decoder_is_initialized(dec)
        /\ dec.format.channels = 1
        /\ dec.format.sample_rate = 44100
        /\ dec.format.bits_per_sample = 16
        /\ wav_decoder_get_total_size(dec) = 16
        /\ ~wlast.oob
        /\ ~wgh.seeked => IsPrefix(wgh.out, wgh.src.payload)

\* C16: a wav_decoder_read_samples call on a decoder that is already
\* initialized reports the whole chunk as audio, whatever its size; the call
\* that initializes the decoder skips the audio_data_offset header bytes.
C16_FeedWholeChunk ==
    [][wlast'.op = "read_samples" /\ wav_decoder_is_initialized(dec') =>
           IF wav_decoder_is_initialized(dec)
           THEN /\ wlast'.len = wlast'.n
                /\ wlast'.n > 0 => wlast'.start = 0
           ELSE /\ wlast'.len = wlast'.n - dec'.audio_data_offset
                /\ wlast'.len > 0 => wlast'.start = dec'.audio_data_offset]_vars

\* C17: on an initialized decoder wav_decoder_seek(offset) succeeds exactly
\* when offset <= the total audio size, and then the position is offset; for
\* every larger offset it returns -EINVAL and leaves the cursor alone; the
\* position is always between 0 and the total audio size.
C17_SeekInRange ==
    /\ [](wav_decoder_is_initialized(dec) =>
              wav_decoder_get_position(dec) <= wav_decoder_get_total_size(dec))
    /\ [][wlast'.op = "seek" /\ wav_decoder_is_initialized(dec) =>
              IF wlast'.n <= wav_decoder_get_total_size(dec)
              THEN /\ wlast'.ret = 0
                   /\ wav_decoder_get_position(dec') = wlast'.n
              ELSE /\ wlast'.ret = -EINVAL
                   /\ dec'.position = dec.position]_vars

\* ---- audiosys.h: the audio output state machine --------------------------
\* audioplay.c and audiosys.c both define audio_system_init, _start, _stop,
\* _pause, _resume and _cleanup; the definitions below carry the file name in
\* front. In the audioplay build cb is audio_ctx.audio_buffer, in the audiosys
\* build it is bt_audio.audio_buffer.

\* circular_buffer_init on the ring of the linked build
SysRingInit ==
    /\ cb' = NewRing(cb.buffer, CapSz)
    /\ last' = Step("init", Control, CapSz, <<>>, 0, FALSE, "none")
    /\ UNCHANGED <<pc, arg, wokeBy, streaming, hist>>

\* circular_buffer_clear or _cleanup on the ring of the linked build, with the
\* value bt_audio.streaming has afterwards
SysRingClear(op, str) ==
    /\ ClearStep(op)
    /\ streaming' = str
    /\ UNCHANGED <<arg, hist>>

\* A call of audio_system_init: config is NULL or holds an output type.
\* "OTHER" is a value outside audio_output_type_t.
Configs == OutputTypes \cup {"NULL", "OTHER"}

\* ---- audioplay.c ----
\* audio_system_init(config), audioplay.c:71-117; ready is what
\* device_is_ready(pwm_dev) answers
audioplay_audio_system_init(config, ready) ==
    /\ build = "audioplay"
    /\ LET ret == IF config = "NULL" THEN -EINVAL
                  ELSE IF audio.state # "UNINITIALIZED" THEN -EALREADY
                  ELSE IF config # "BUZZER" THEN -ENOTSUP
                  ELSE IF ~ready THEN -ENODEV
                  ELSE 0
       IN  /\ slast' = SysStepWith("init", ret, audio.state, audio.threads,
                                    config, ~ready, audio.output_type)
           /\ IF ret = 0
              THEN /\ SysRingInit
                   /\ audio' = [audio EXCEPT !.state = "INITIALIZED",
                                             !.output_type = config,
                                             !.format = MainFormat]
              ELSE UNCHANGED <<ringVars, audio>>
    /\ UNCHANGED <<build, bt, poolVars, wavVars, bufVars, thrVars>>

\* audio_system_start(), audioplay.c:119-144
audioplay_audio_system_start ==
    /\ build = "audioplay"
    /\ IF audio.state \notin {"INITIALIZED", "PAUSED"}
       THEN /\ slast' = SysStep("start", -EINVAL, audio.state, audio.threads)
            /\ UNCHANGED audio
       ELSE /\ slast' = SysStep("start", 0, audio.state, audio.threads)
            /\ audio' = [audio EXCEPT
                   !.state = "PLAYING",
                   !.thread_running = TRUE,
                   !.threads = IF audio.thread_running THEN @ ELSE @ + 1]
    /\ UNCHANGED <<build, bt, ringVars, poolVars, wavVars, bufVars, thrVars>>

\* audioplay.c:146-160: what audio_system_stop does to audio_ctx
PlayStopped(a) ==
    IF a.state \in {"PLAYING", "PAUSED"}
    THEN [a EXCEPT !.state = "INITIALIZED"]
    ELSE a

\* audioplay.c:155-156: the pwm_set of audio_system_stop, pulse width 0
PwmStopped(p, a) ==
    IF a.state \in {"PLAYING", "PAUSED"}
    THEN [p EXCEPT !.by = "stop", !.pulse_width = 0]
    ELSE p

\* audio_system_stop(), audioplay.c:146-160
audioplay_audio_system_stop ==
    /\ build = "audioplay"
    /\ slast' = SysStep("stop", 0, audio.state, audio.threads)
    /\ audio' = PlayStopped(audio)
    /\ pwm' = PwmStopped(pwm, audio)
    /\ UNCHANGED <<build, bt, ringVars, poolVars, wavVars, bufVars, pt, wr,
                   clock>>

\* audio_system_pause(), audioplay.c:162-172
audioplay_audio_system_pause ==
    /\ build = "audioplay"
    /\ IF audio.state # "PLAYING"
       THEN /\ slast' = SysStep("pause", -EINVAL, audio.state, audio.threads)
            /\ UNCHANGED audio
       ELSE /\ slast' = SysStep("pause", 0, audio.state, audio.threads)
            /\ audio' = [audio EXCEPT !.state = "PAUSED"]
    /\ UNCHANGED <<build, bt, ringVars, poolVars, wavVars, bufVars, thrVars>>

\* audio_system_resume(), audioplay.c:174-184
audioplay_audio_system_resume ==
    /\ build = "audioplay"
    /\ IF audio.state # "PAUSED"
       THEN /\ slast' = SysStep("resume", -EINVAL, audio.state, audio.threads)
            /\ UNCHANGED audio
       ELSE /\ slast' = SysStep("resume", 0, audio.state, audio.threads)
            /\ audio' = [audio EXCEPT !.state = "PLAYING"]
    /\ UNCHANGED <<build, bt, ringVars, poolVars, wavVars, bufVars, thrVars>>

\* audio_system_cleanup(), audioplay.c:245-263: stop, abort the thread,
\* circular_buffer_cleanup
audioplay_audio_system_cleanup ==
    /\ build = "audioplay"
    /\ slast' = SysStep("cleanup", 0, audio.state, audio.threads)
    /\ audio' = [PlayStopped(audio) EXCEPT !.state = "UNINITIALIZED",
                                           !.thread_running = FALSE,
                                           !.threads = IF audio.thread_running
                                                       THEN 0 ELSE @]
    /\ SysRingClear("cleanup", streaming)
    /\ pwm' = PwmStopped(pwm, audio)
    /\ UNCHANGED <<build, bt, poolVars, wavVars, bufVars, pt, wr, clock>>

\* ---- audiosys.c over bluetooth.c and audioplay_stubs.c ----
\* Where bluetooth_audio_init can fail: gatt_audio_service_init (before the
\* ring is set up) or bt_enable (after it).
BtFaults == {"none", "gatt", "enable"}

\* bluetooth_audio_init(format), bluetooth.c:100-147: its return value.
\* bt_enable answers -EALREADY once the stack is enabled.
BtInitRet(b, fault) ==
    IF b.initialized THEN 0
    ELSE IF fault = "gatt" THEN -ENODEV
    ELSE IF fault = "enable" THEN -ENODEV
    ELSE IF b.enabled THEN -EALREADY
    ELSE 0

\* audio_system_init(config), audiosys.c:35-81
audiosys_audio_system_init(config, fault) ==
    /\ build = "audiosys"
    /\ IF config = "NULL"
       THEN /\ slast' = SysStepWith("init", -EINVAL, audio.state, audio.threads,
                                     config, FALSE, audio.output_type)
            /\ UNCHANGED <<audio, bt, ringVars>>
       ELSE IF audio.initialized
       THEN /\ slast' = SysStepWith("init", 0, audio.state, audio.threads,
                                     config, FALSE, audio.output_type)
            /\ UNCHANGED <<audio, bt, ringVars>>
       ELSE IF config \notin OutputTypes
       THEN /\ slast' = SysStepWith("init", -ENOTSUP, audio.state,
                                     audio.threads, config, FALSE,
                                     audio.output_type)
            /\ audio' = [audio EXCEPT !.output_type = config]
            /\ UNCHANGED <<bt, ringVars>>
       ELSE LET ret == IF config = "BLUETOOTH" THEN BtInitRet(bt, fault) ELSE 0
                ringSet == /\ config = "BLUETOOTH"
                           /\ ~bt.initialized
                           /\ fault # "gatt"
            IN  /\ slast' = SysStepWith("init", ret, audio.state, audio.threads,
                                         config, ret < 0, audio.output_type)
                /\ IF ringSet THEN SysRingInit ELSE UNCHANGED ringVars
                /\ bt' = IF config = "BLUETOOTH" /\ ~bt.initialized /\ ret = 0
                         THEN [bt EXCEPT !.initialized = TRUE, !.enabled = TRUE,
                                         !.volume = BtDefaultVolume,
                                         !.subscribed = TRUE]
                         ELSE IF ringSet
                         THEN [bt EXCEPT !.subscribed = TRUE]
                         ELSE bt
                /\ audio' = IF ret < 0
                            THEN [audio EXCEPT !.output_type = config,
                                               !.state = "ERROR"]
                            ELSE [audio EXCEPT !.output_type = config,
                                               !.initialized = TRUE,
                                               !.state = "INITIALIZED"]
    /\ UNCHANGED <<build, poolVars, wavVars, bufVars, thrVars>>

\* bluetooth_audio_start(), bluetooth.c:317-339: its return value
BtStartRet(b) ==
    IF ~b.initialized THEN -EINVAL
    ELSE IF ~b.connected THEN -ENOTCONN
    ELSE 0

\* audio_system_start(), audiosys.c:83-120; audio_system_resume(),
\* audiosys.c:157-161, is a call of it
SysStart(op) ==
    /\ build = "audiosys"
    /\ IF ~audio.initialized
       THEN /\ slast' = SysStep(op, -EINVAL, audio.state, audio.threads)
            /\ UNCHANGED <<audio, streaming>>
       ELSE IF audio.state = "PLAYING"
       THEN /\ slast' = SysStep(op, 0, audio.state, audio.threads)
            /\ UNCHANGED <<audio, streaming>>
       ELSE LET ret == IF audio.output_type = "BLUETOOTH"
                       THEN BtStartRet(bt) ELSE 0
            IN  /\ slast' = SysStep(op, ret, audio.state, audio.threads)
                /\ streaming' = IF audio.output_type = "BLUETOOTH" /\ ret = 0
                                THEN TRUE ELSE streaming
                /\ audio' = [audio EXCEPT !.state = IF ret < 0 THEN "ERROR"
                                                    ELSE "PLAYING"]
    /\ UNCHANGED <<build, bt, cb, pc, arg, wokeBy, last, hist, poolVars,
                   wavVars, bufVars, thrVars>>

audiosys_audio_system_start == SysStart("start")

audiosys_audio_system_resume == SysStart("resume")

\* audio_system_stop(), audiosys.c:122-149; audio_system_pause(),
\* audiosys.c:151-155, is a call of it. bluetooth_audio_stop and the stub
\* both return 0.
SysStop(op) ==
    /\ build = "audiosys"
    /\ IF ~audio.initialized
       THEN /\ slast' = SysStep(op, -EINVAL, audio.state, audio.threads)
            /\ UNCHANGED <<audio, ringVars>>
       ELSE /\ slast' = SysStep(op, 0, audio.state, audio.threads)
            /\ IF audio.output_type = "BLUETOOTH" /\ streaming
               THEN SysRingClear("stop", FALSE)
               ELSE UNCHANGED ringVars
            /\ audio' = [audio EXCEPT !.state = "INITIALIZED"]
    /\ UNCHANGED <<build, bt, poolVars, wavVars, bufVars, thrVars>>

audiosys_audio_system_stop == SysStop("stop")

audiosys_audio_system_pause == SysStop("pause")

\* audio_system_cleanup(), audiosys.c:230-256, with bluetooth_audio_cleanup,
\* bluetooth.c:625-650; the link goes down later, in the callback
audiosys_audio_system_cleanup ==
    /\ build = "audiosys"
    /\ slast' = SysStep("cleanup", 0, audio.state, audio.threads)
    /\ IF ~audio.initialized
       THEN UNCHANGED <<audio, bt, ringVars>>
       ELSE /\ audio' = [audio EXCEPT !.initialized = FALSE,
                                      !.state = "UNINITIALIZED"]
            /\ IF audio.output_type = "BLUETOOTH" /\ bt.initialized
               THEN /\ SysRingClear("cleanup", FALSE)
                    /\ bt' = [bt EXCEPT !.initialized = FALSE,
                                        !.connected = FALSE]
               ELSE UNCHANGED <<bt, ringVars>>
    /\ UNCHANGED <<build, poolVars, wavVars, bufVars, thrVars>>

\* bt_connected_callback(conn, 0), bluetooth.c:236-282: a central connects
\* to the enabled stack; the streaming thread is created
bt_connected_callback ==
    /\ build = "audiosys"
    /\ bt.enabled
    /\ ~bt.link
    /\ bt' = [bt EXCEPT !.connected = TRUE, !.link = TRUE, !.thread = TRUE]
    /\ slast' = SysStep("connected", 0, audio.state, audio.threads)
    /\ UNCHANGED <<build, audio, ringVars, poolVars, wavVars, bufVars, thrVars>>

\* bt_disconnected_callback(conn, reason), bluetooth.c:287-312
bt_disconnected_callback ==
    /\ build = "audiosys"
    /\ bt.link
    /\ bt' = [bt EXCEPT !.connected = FALSE, !.link = FALSE, !.thread = FALSE]
    /\ SysRingClear("clear", FALSE)
    /\ slast' = SysStep("disconnected", 0, audio.state, audio.threads)
    /\ UNCHANGED <<build, audio, poolVars, wavVars, bufVars, thrVars>>

\* The volume argument, a uint8_t: the ends of the range, the first value
\* above it and the largest one.
Volumes == {0, 100, 101, 255}

\* audio_system_set_volume(volume), audioplay.c:223-233
audioplay_audio_system_set_volume(volume) ==
    /\ build = "audioplay"
    /\ IF volume > 100
       THEN /\ slast' = SysStepWith("set_volume", -EINVAL, audio.state,
                                     audio.threads, volume, FALSE, "none")
            /\ UNCHANGED audio
       ELSE /\ slast' = SysStepWith("set_volume", 0, audio.state,
                                     audio.threads, volume, FALSE, "none")
            /\ audio' = [audio EXCEPT !.volume = volume]
    /\ UNCHANGED <<build, bt, ringVars, poolVars, wavVars, bufVars, thrVars>>

\* audio_system_set_volume(volume), audiosys.c:185-205, with
\* bluetooth_audio_set_volume, bluetooth.c:456-468, and the stub
audiosys_audio_system_set_volume(volume) ==
    /\ build = "audiosys"
    /\ LET ret == IF ~audio.initialized \/ volume > 100 THEN -EINVAL ELSE 0
       IN  /\ slast' = SysStepWith("set_volume", ret, audio.state,
                                    audio.threads, volume, FALSE, "none")
           /\ bt' = IF ret = 0 /\ audio.output_type = "BLUETOOTH"
                    THEN [bt EXCEPT !.volume = volume]
                    ELSE bt
    /\ UNCHANGED <<build, audio, ringVars, poolVars, wavVars, bufVars, thrVars>>

\* gatt_audio_service.h:65-72
Commands == {"PLAY", "PAUSE", "STOP", "VOLUME", "MUTE", "UNMUTE"}

\* bt_audio_control_callback(control), bluetooth.c:675-719: the connected
\* client writes a command to the control characteristic.  The callback is
\* registered in bt_connected_callback.  The step records bt_audio.volume as
\* the command found it.
bt_audio_control_callback(command, volume) ==
    /\ build = "audiosys"
    /\ bt.link
    /\ slast' = SysStepWith("cmd." \o command, 0, audio.state, audio.threads,
                            volume, FALSE, bt.volume)
    /\ IF command = "PLAY"
       THEN /\ streaming' = IF BtStartRet(bt) = 0 THEN TRUE ELSE streaming
            /\ UNCHANGED <<cb, pc, arg, wokeBy, last, hist>>
       ELSE IF command = "PAUSE"
       THEN IF streaming THEN SysRingClear("stop", FALSE)
                         ELSE UNCHANGED ringVars
       ELSE IF command = "STOP"
       THEN SysRingClear("clear", FALSE)
       ELSE UNCHANGED ringVars
    /\ bt' = IF command = "VOLUME" /\ volume <= 100
             THEN [bt EXCEPT !.volume = volume]
             ELSE IF command = "MUTE" THEN [bt EXCEPT !.volume = 0]
             ELSE IF command = "UNMUTE" /\ bt.volume <= 100
             THEN [bt EXCEPT !.volume = bt.volume]
             ELSE bt
    /\ UNCHANGED <<build, audio, poolVars, wavVars, bufVars, thrVars>>

SysNext ==
    \/ \E config \in Configs, ready \in BOOLEAN :
           audioplay_audio_system_init(config, ready)
    \/ audioplay_audio_system_start
    \/ audioplay_audio_system_stop
    \/ audioplay_audio_system_pause
    \/ audioplay_audio_system_resume
    \/ audioplay_audio_system_cleanup
    \/ \E config \in Configs, fault \in BtFaults :
           audiosys_audio_system_init(config, fault)
    \/ audiosys_audio_system_start
    \/ audiosys_audio_system_stop
    \/ audiosys_audio_system_pause
    \/ audiosys_audio_system_resume
    \/ audiosys_audio_system_cleanup
    \/ bt_connected_callback
    \/ bt_disconnected_callback
    \/ \E volume \in Volumes : audioplay_audio_system_set_volume(volume)
    \/ \E volume \in Volumes : audiosys_audio_system_set_volume(volume)
    \/ \E command \in Commands, volume \in Volumes :
           bt_audio_control_callback(command, volume)

SysSpec == SysInit /\ [][SysNext]_vars

\* ---- claims about the audio output state machine --------------------------
\* C18: audio_system_pause succeeds only in state Playing and moves the state
\* to Paused, audio_system_resume succeeds only in state Paused and moves the
\* state to Playing; in every other state each fails with -EINVAL and leaves
\* the state unchanged, in both implementations.
C18_PauseResumeGuarded ==
    /\ slast.op = "pause" =>
           IF slast.state = "PLAYING"
           THEN slast.ret = 0 /\ audio.state = "PAUSED"
           ELSE slast.ret = -EINVAL /\ audio.state = slast.state
    /\ slast.op = "resume" =>
           IF slast.state = "PAUSED"
           THEN slast.ret = 0 /\ audio.state = "PLAYING"
           ELSE slast.ret = -EINVAL /\ audio.state = slast.state

\* C19: audio_system_start from Initialized or Paused returns 0 and moves the
\* state to Playing; start while already Playing returns 0 and changes
\* nothing, and there is never a second playback thread, in both
\* implementations.
C19_StartIdempotent ==
    /\ slast.op = "start" /\ slast.state \in {"INITIALIZED", "PAUSED"} =>
           slast.ret = 0 /\ audio.state = "PLAYING"
    /\ slast.op = "start" /\ slast.state = "PLAYING" =>
           /\ slast.ret = 0
           /\ audio.state = "PLAYING"
           /\ audio.threads = slast.threads
    /\ audio.threads <= 1

\* C20: audio_system_stop always returns 0; from Playing or Paused the state
\* becomes Initialized, from any other state it stays what it was, in both
\* implementations.
C20_StopAlwaysSucceeds ==
    slast.op = "stop" =>
        /\ slast.ret = 0
        /\ IF slast.state \in {"PLAYING", "PAUSED"}
           THEN audio.state = "INITIALIZED"
           ELSE audio.state = slast.state

\* C21: audio_system_cleanup returns 0 and leaves the state Uninitialized
\* from every state, Error after a failed audio_system_init included, and a
\* second cleanup right after it returns 0 and changes nothing.
C21_CleanupFromAnyState ==
    /\ [](slast.op = "cleanup" =>
              slast.ret = 0 /\ audio.state = "UNINITIALIZED")
    /\ [][slast.op = "cleanup" /\ slast'.op = "cleanup" =>
              slast'.ret = 0 /\ audio' = audio /\ bt' = bt]_vars

\* C22: once the state is Error, no audio_system_start, _stop, _pause,
\* _resume or _write call takes it out of Error.
C22_ErrorIsTerminal ==
    [][audio.state = "ERROR" /\ audio'.state # "ERROR" =>
           slast'.op \notin {"start", "stop", "pause", "resume", "write"}]_vars

\* C23: audio_system_init from Uninitialized with a supported output type and
\* a working backend returns 0 and the state is Initialized, and a
\* set_volume in that state with a volume up to 100 returns 0; with config
\* NULL it returns -EINVAL and with an unknown output type -ENOTSUP, and then
\* the state is still Uninitialized and the stored configuration is the one
\* stored before.
C23_InitOutcomes ==
    /\ slast.op = "init" /\ slast.state = "UNINITIALIZED" =>
          /\ slast.arg = "NULL" =>
                 /\ slast.ret = -EINVAL
                 /\ audio.state = "UNINITIALIZED"
                 /\ audio.output_type = slast.stored
          /\ slast.arg = "OTHER" =>
                 /\ slast.ret = -ENOTSUP
                 /\ audio.state = "UNINITIALIZED"
                 /\ audio.output_type = slast.stored
          /\ slast.arg \in OutputTypes /\ ~slast.fault =>
                 \/ slast.ret = 0 /\ audio.state = "INITIALIZED"
                 \/ /\ build = "audioplay"
                    /\ slast.arg # "BUZZER"
                    /\ slast.ret = -ENOTSUP
                    /\ audio.state = "UNINITIALIZED"
                    /\ audio.output_type = slast.stored
    /\ slast.op = "set_volume" /\ slast.state = "INITIALIZED"
           /\ slast.arg <= 100 => slast.ret = 0

\* C24: after a PLAY command the state is Playing, after PAUSE it is Paused,
\* after STOP it is Initialized, and in every state of the Bluetooth build
\* the state is Playing exactly when bt_audio.streaming is set.
C24_CommandsDriveStateMachine ==
    /\ slast.op = "cmd.PLAY" => audio.state = "PLAYING"
    /\ slast.op = "cmd.PAUSE" => audio.state = "PAUSED"
    /\ slast.op = "cmd.STOP" => audio.state = "INITIALIZED"
    /\ build = "audiosys" /\ audio.output_type = "BLUETOOTH" =>
           (streaming <=> audio.state = "PLAYING")

\* ---- more claims about the circular buffer -------------------------------
\* C29 as stated: head and tail lie in [0, size), 0 <= count <= size, and
\* count == (head - tail) mod size.
C29_CountIsHeadMinusTail ==
    /\ cb.head \in 0..(cb.size - 1)
    /\ cb.tail \in 0..(cb.size - 1)
    /\ cb.count \in 0..cb.size
    /\ cb.count = (cb.head - cb.tail) % cb.size

\* C29 amended: head and tail lie in [0, size), 0 <= count <= size, and
\* count is congruent to head - tail modulo size: count == (head - tail) mod
\* size while count < size, and head == tail when the ring is full.
C29_CountCongruentHeadMinusTail ==
    /\ cb.head \in 0..(cb.size - 1)
    /\ cb.tail \in 0..(cb.size - 1)
    /\ cb.count \in 0..cb.size
    /\ cb.count % cb.size = (cb.head - cb.tail) % cb.size
    /\ cb.count = cb.size => cb.head = cb.tail

\* A full ring whose head has wrapped.
C29_Witness == cb.count = cb.size /\ cb.head # 0 /\ last.op = "write"

WriteOps == {"write", "write_timeout"}
ReadOps == {"read", "read_timeout"}

\* The parts of C30 that do not depend on what happens between the signal
\* and the run of the signalled thread: a write or write_timeout that stores
\* at least one byte makes the blocked consumer ready by a signal, a read or
\* read_timeout that returns at least one byte makes one blocked producer
\* ready by a signal; a write leaves every blocked producer blocked and a
\* read leaves the blocked consumer blocked.
C30_SignalStep ==
    /\ last'.op \in WriteOps /\ last'.ret > 0 =>
           \A c \in NotEmptyWaiters(pc) :
               pc'[c] = "woken" /\ wokeBy'[c] = "signal"
    /\ last'.op \in ReadOps /\ last'.ret > 0 /\ NotFullWaiters(pc) # {} =>
           \E p \in NotFullWaiters(pc) :
               pc'[p] = "woken" /\ wokeBy'[p] = "signal"
    /\ last'.op \in WriteOps \cup {"write_timeout.wait"} =>
           \A p \in NotFullWaiters(pc) \ {last'.who} : pc'[p] = "waiting"
    /\ last'.op \in ReadOps \cup {"read_timeout.wait"} =>
           \A c \in NotEmptyWaiters(pc) \ {last'.who} : pc'[c] = "waiting"

\* C30 as stated: the signal steps above, and a consumer that a write made
\* ready returns a positive byte count from that read_timeout call.
C30_SignalledConsumerGetsData ==
    /\ [][C30_SignalStep]_vars
    /\ [](last.who \in Consumers /\ last.wake = "signal" =>
              last.op = "read_timeout" /\ last.ret > 0)

\* C30 amended: the signal steps above, and a consumer that a write made
\* ready returns a positive byte count from that read_timeout call unless the
\* ring was emptied (circular_buffer_clear) before it ran; then it waits
\* again.
C30_SignalledConsumerRechecks ==
    /\ [][C30_SignalStep]_vars
    /\ [][\A c \in Consumers :
              pc[c] = "woken" /\ wokeBy[c] = "signal" /\ last'.who = c
                  /\ pc'[c] # "woken" =>
              IF cb.count > 0
              THEN last'.op = "read_timeout" /\ last'.ret > 0
              ELSE last'.op = "read_timeout.wait" /\ pc'[c] = "waiting"]_vars

\* The consumer was signalled by a write and returned bytes.
C30_Witness ==
    /\ last.who \in Consumers
    /\ last.wake = "signal"
    /\ last.op = "read_timeout"
    /\ last.ret > 0

\* ---- audio_buffers.c: bytes of one checked-out buffer --------------------
\* The bytes a holder passes: every sequence over two values, up to one byte
\* more than the buffer holds.
ByteVals == {1, 2}
RECURSIVE SeqsOfLen(_)
SeqsOfLen(n) ==
    IF n = 0 THEN {<<>>}
    ELSE {Append(q, v) : q \in SeqsOfLen(n - 1), v \in ByteVals}
ByteSeqs == UNION {SeqsOfLen(n) : n \in 0..(BufBytes + 1)}

\* audio_buffers.c:174-175
BufWriteLen(b, len) ==
    LET available == SubSz(b.size, b.used)
    IN  IF len > available THEN available ELSE len

\* audio_buffers.c:182-183: memcpy behind the used bytes
BufStore(b, data, to_write) ==
    [b EXCEPT !.data = [i \in 1..b.size |->
                           IF i > b.used /\ i <= b.used + to_write
                           THEN data[i - b.used] ELSE b.data[i]],
              !.used = b.used + to_write]

\* audio_buffers.c:197
BufReadLen(b, len) == IF len > b.used THEN b.used ELSE len

\* Mutant of BufTake: the remaining bytes are not moved to the front.
BufTake_NoShift(b, to_read) == [b EXCEPT !.used = b.used - to_read]

\* audio_buffers.c:205-210: memmove of the remaining bytes to the front
BufTake(b, to_read) ==
    [b EXCEPT !.data = [i \in 1..b.size |->
                           IF to_read < b.used /\ i <= b.used - to_read
                           THEN b.data[i + to_read] ELSE b.data[i]],
              !.used = b.used - to_read]

\* audio_buffer_write(buffer, data, len), audio_buffers.c:168-189, with the
\* bytes passed
audio_buffer_write_bytes(data) ==
    /\ LET len == Len(data)
           to_write == BufWriteLen(abuf, len)
       IN  /\ astep' = [op |-> "write", len |-> len,
                        ret |-> IF len = 0 THEN 0 ELSE to_write, out |-> <<>>,
                        used0 |-> abuf.used, fifo0 |-> afifo]
           /\ IF len = 0 \/ to_write = 0
              THEN UNCHANGED <<abuf, afifo>>
              ELSE /\ abuf' = BufStore(abuf, data, to_write)
                   /\ afifo' = afifo \o SubSeq(data, 1, to_write)
    /\ UNCHANGED <<ringVars, poolVars, wavVars, sysVars, thrVars>>

\* audio_buffer_read(buffer, data, len), audio_buffers.c:191-216
audio_buffer_read(len) ==
    /\ LET to_read == BufReadLen(abuf, len)
       IN  IF len = 0 \/ to_read = 0
           THEN /\ astep' = [op |-> "read", len |-> len, ret |-> 0,
                             out |-> <<>>, used0 |-> abuf.used,
                             fifo0 |-> afifo]
                /\ UNCHANGED <<abuf, afifo>>
           ELSE /\ astep' = [op |-> "read", len |-> len, ret |-> to_read,
                             out |-> [i \in 1..to_read |-> abuf.data[i]],
                             used0 |-> abuf.used, fifo0 |-> afifo]
                /\ abuf' = BufTake(abuf, to_read)
                /\ afifo' = SubSeq(afifo, to_read + 1, Len(afifo))
    /\ UNCHANGED <<ringVars, poolVars, wavVars, sysVars, thrVars>>

BufNext ==
    \/ \E data \in ByteSeqs : audio_buffer_write_bytes(data)
    \/ \E len \in 0..(BufBytes + 1) : audio_buffer_read(len)

BufSpec == Init /\ [][BufNext]_vars

\* C28: used <= size in every state; the used bytes of the data region are
\* the bytes written and not yet read, oldest first; a write accepts exactly
\* min(len, size - used) bytes; a read returns the min(len, used) oldest
\* bytes, so a read of everything written into an empty buffer returns those
\* bytes and leaves the buffer empty.
C28_BufferIsFifo ==
    /\ abuf.used <= abuf.size
    /\ [i \in 1..abuf.used |-> abuf.data[i]] = afifo
    /\ astep.op = "write" =>
           /\ astep.ret = Min(astep.len, abuf.size - astep.used0)
           /\ abuf.used = astep.used0 + astep.ret
    /\ astep.op = "read" =>
           /\ astep.ret = Min(astep.len, astep.used0)
           /\ astep.out = SubSeq(astep.fifo0, 1, astep.ret)
           /\ abuf.used = astep.used0 - astep.ret
           /\ astep.len >= astep.used0 => abuf.used = 0

\* A read took some of the stored bytes and left others, which were moved.
C28_Witness ==
    /\ astep.op = "read"
    /\ astep.ret > 0
    /\ abuf.used > 0
    /\ abuf.data[1] # astep.out[1]

\* ---- audioplay.c: audio_system_write and audio_playback_thread ----------
\* audioplay.c:270 and 299, with the format main.c configures
SampleInterval == 1000000 \div SampleRate
FrameBytes == BitsPerSample \div 8

Writer == "p1"
Player == "c1"

\* What the producer passes in one call: nothing, half a sample, a sample,
\* of silence (zero bytes).
WriteLens == {0, 1, FrameBytes}
Silence(n) == [i \in 1..n |-> 0]

\* The audioplay build after audio_system_init(config) returned 0 for a
\* buzzer configuration (audioplay.c:71-117): audio_ctx.audio_buffer is an
\* empty ring, the state is INITIALIZED, no thread exists.
PlayInitWith(format) ==
    /\ hist = NoHistory
    /\ cb = NewRing([i \in 0..(AudioCap - 1) |-> 0], AudioCap)
    /\ pc = [t \in Threads |-> "idle"]
    /\ arg = [t \in Threads |-> IF t \in Producers THEN <<>> ELSE 0]
    /\ wokeBy = [t \in Threads |-> "none"]
    /\ streaming = FALSE
    /\ last = Step("init", Control, AudioCap, <<>>, 0, FALSE, "none")
    /\ PoolAfterInit
    /\ WavAtBoot
    /\ build = "audioplay"
    /\ audio = [state |-> "INITIALIZED", initialized |-> FALSE,
                output_type |-> "BUZZER", thread_running |-> FALSE,
                threads |-> 0, volume |-> DefaultVolume,
                format |-> format]
    /\ bt = [initialized |-> FALSE, connected |-> FALSE, enabled |-> FALSE,
             link |-> FALSE, thread |-> FALSE, volume |-> 0,
             subscribed |-> FALSE, sent |-> <<>>]
    /\ slast = SysStepWith("init", 0, "UNINITIALIZED", 0, "BUZZER", FALSE,
                           "BUZZER")
    /\ BufAtAlloc
    /\ ThreadAtBoot

PlayInit == PlayInitWith(MainFormat)

\* audio_system_write(data, len), audioplay.c:186-198: the checks of the
\* argument and the state, and circular_buffer_size_get
audioplay_audio_system_write(len) ==
    /\ build = "audioplay"
    /\ wr.stage = "idle"
    /\ IF len = 0 \/ audio.state = "UNINITIALIZED"
       THEN wr' = [op |-> "write", stage |-> "idle", len |-> len,
                   current_size |-> 0,
                   free |-> circular_buffer_space_get(cb), ret |-> -EINVAL]
       ELSE wr' = [op |-> "write", stage |-> "sized", len |-> len,
                   current_size |-> circular_buffer_size_get(cb),
                   free |-> 0, ret |-> 0]
    /\ UNCHANGED <<ringVars, poolVars, wavVars, sysVars, bufVars, pt, clock, pwm>>

\* audioplay.c:199-206: circular_buffer_space_get and the test against three
\* quarters of the sum
audio_system_write_check ==
    /\ wr.stage = "sized"
    /\ LET available_space == circular_buffer_space_get(cb)
           total_capacity == wr.current_size + available_space
       IN  IF wr.current_size > (total_capacity * 3) \div 4
           THEN wr' = [wr EXCEPT !.stage = "idle", !.ret = 0,
                                 !.current_size = 0,
                                 !.free = available_space]
           ELSE wr' = [wr EXCEPT !.stage = "checked"]
    /\ UNCHANGED <<ringVars, poolVars, wavVars, sysVars, bufVars, pt, clock, pwm>>

\* audioplay.c:209-220: circular_buffer_write_timeout(.., K_MSEC(10)) and the
\* return of what it wrote. The ring is not full here: the test above
\* returned for a full ring, and only the playback thread has touched the
\* ring since.
audio_system_write_store ==
    /\ wr.stage = "checked"
    /\ ~MustWaitForSpace(cb, wokeBy[Writer])
    /\ WriteLoop(Writer, Silence(wr.len), hist)
    /\ wr' = [wr EXCEPT !.stage = "idle", !.ret = last'.ret,
                        !.current_size = 0,
                        !.free = circular_buffer_space_get(cb)]
    /\ UNCHANGED <<streaming, poolVars, wavVars, sysVars, bufVars, pt, clock, pwm>>

\* Mutant of Starved: a read of nothing moves next_sample_time on.
Starved_Advance(p) ==
    [p EXCEPT !.starved = TRUE, !.next_sample_time = @ + SampleInterval]

\* audioplay.c:305-314: bytes_read == 0, the thread sleeps 100 us and goes
\* round the loop
Starved(p) == [p EXCEPT !.starved = TRUE]

\* audioplay.c:363-370: how long the thread busy-waits after a sample, the
\* uptime being now microseconds
BusyWait(next, now) ==
    LET current_time == (now \div 1000) * 1000
        sleep_time == IF next > current_time THEN next - current_time ELSE 0
    IN  IF sleep_time > 0 /\ sleep_time < 1000 THEN sleep_time ELSE 0

\* audioplay.c:30
PWM_PERIOD_NS == 250000

\* pwm_play_sample(sample), audioplay.c:378-399. sample * pulse_range is a
\* uint32_t product; it is kept here as two 16-bit halves hi and lo, and
\* (hi * 2^16 + lo) / 65535 is hi + (hi + lo) / 65535.
pwm_play_sample(p, sample) ==
    LET min_pulse == PWM_PERIOD_NS \div 10
        max_pulse == (PWM_PERIOD_NS * 9) \div 10
        pulse_range == max_pulse - min_pulse
        lo_part == sample * (pulse_range % (2 ^ 16))
        hi_part == sample * (pulse_range \div (2 ^ 16)) + lo_part \div (2 ^ 16)
        lo == lo_part % (2 ^ 16)
        hi == hi_part % (2 ^ 16)
        pulse_width == min_pulse + hi + (hi + lo) \div 65535
    IN  [p EXCEPT !.by = "play", !.sample = sample,
                  !.pulse_width = pulse_width]

\* audioplay.c:324-341: the uint16_t sample made of the bytes of one read
SampleOf(format, sample_buffer) ==
    IF format.bits_per_sample = 16
    THEN LET word == sample_buffer[2] * 256 + sample_buffer[1]
             signed_sample == IF word >= 32768 THEN word - 65536 ELSE word
         IN  (signed_sample + 32768) % 65536
    ELSE (sample_buffer[1] * 256) % 65536

\* audioplay.c:343-356: volume, the low-pass filter and its memory, and the
\* pulse of the filtered sample
Output(p, a, sample_buffer) ==
    LET sample == ((SampleOf(a.format, sample_buffer) * a.volume) \div 100)
                      % 65536
        filtered_sample == ((sample * 8 + p.filter_prev_sample * 2) \div 10)
                               % 65536
    IN  [pwm_play_sample(p, filtered_sample)
            EXCEPT !.filter_prev_sample = filtered_sample]

\* audioplay.c:299: bytes_to_read, the bytes the thread asks for in one pass
BytesToRead(format) == format.bits_per_sample \div 8

\* audioplay.c:305-371: what the thread does with the bytes_read bytes of one
\* read: nothing read, a whole sample (converted, put out through
\* pwm_play_sample, next_sample_time moved on), or a part of one (dropped)
Played(p, bytes_read, bytes_to_read) ==
    IF bytes_read = 0 THEN Starved(p)
    ELSE IF bytes_read = bytes_to_read
    THEN [p EXCEPT !.next_sample_time = @ + SampleInterval,
                   !.k = @ + 1,
                   !.emitted = @ + 1,
                   !.starved = FALSE,
                   !.recovered = @ \/ p.starved]
    ELSE p

\* The thread after circular_buffer_read_timeout has stored or pended
AfterRead ==
    IF pc'[Player] = "waiting"
    THEN UNCHANGED <<pt, clock, pwm>>
    ELSE /\ pt' = Played(pt, last'.ret, BytesToRead(audio.format))
         /\ pwm' = IF last'.ret # 0 /\ last'.ret = BytesToRead(audio.format)
                   THEN Output(pwm, audio, RingLoad(cb, last'.ret))
                   ELSE pwm
         /\ clock' = IF last'.ret = BytesToRead(audio.format)
                     THEN clock + BusyWait(pt.next_sample_time + SampleInterval,
                                           clock)
                     ELSE clock

\* audio_playback_thread, audioplay.c:266-281: the thread audio_system_start
\* created runs for the first time. next_sample_time is k_uptime_get(),
\* milliseconds; start is that moment in microseconds.
audio_playback_thread_entry ==
    /\ build = "audioplay"
    /\ audio.threads > 0
    /\ pt.pc = "none"
    /\ pt' = [pt EXCEPT !.pc = "loop",
                        !.next_sample_time = clock \div 1000,
                        !.start = (clock \div 1000) * 1000,
                        !.k = 0]
    /\ audio' = [audio EXCEPT !.thread_running = TRUE]
    /\ UNCHANGED <<build, bt, slast, ringVars, poolVars, wavVars, bufVars, wr,
                   clock, pwm>>

\* audioplay.c:283-302: one pass of the loop up to the return of
\* circular_buffer_read_timeout or its k_condvar_wait, and lines 305-371 if it
\* returned. How long a k_sleep lasts is left open.
audio_playback_thread_loop ==
    /\ pt.pc = "loop"
    /\ pc[Player] = "idle"
    /\ audio.thread_running
    /\ IF audio.state # "PLAYING"
       THEN /\ pt' = [pt EXCEPT !.next_sample_time = clock \div 1000,
                                !.start = (clock \div 1000) * 1000,
                                !.k = 0]
            /\ UNCHANGED <<ringVars, clock, pwm>>
       ELSE /\ pt.emitted < MaxFrames
            /\ ReadLoop(Player, BytesToRead(audio.format))
            /\ AfterRead
            /\ UNCHANGED streaming
    /\ UNCHANGED <<poolVars, wavVars, sysVars, bufVars, wr>>

\* k_condvar_wait returned 0 inside the thread's circular_buffer_read_timeout
audio_playback_thread_wake ==
    /\ pt.pc = "loop"
    /\ pc[Player] = "woken"
    /\ ReadLoop(Player, arg[Player])
    /\ AfterRead
    /\ UNCHANGED <<streaming, poolVars, wavVars, sysVars, bufVars, wr>>

\* k_condvar_wait returned -EAGAIN after 10 ms: the read returns 0
audio_playback_thread_expire ==
    /\ pt.pc = "loop"
    /\ pc[Player] = "waiting"
    /\ pc' = [pc EXCEPT ![Player] = "idle"]
    /\ arg' = [arg EXCEPT ![Player] = 0]
    /\ last' = Step("read_timeout", Player, arg[Player], <<>>, 0, TRUE, "none")
    /\ pt' = Played(pt, 0, BytesToRead(audio.format))
    /\ UNCHANGED <<cb, wokeBy, streaming, hist, poolVars, wavVars, sysVars,
                   bufVars, wr, clock, pwm>>

\* The uptime reaches the next full millisecond.
Tick ==
    /\ clock < MaxUptimeMs * 1000
    /\ clock' = ((clock \div 1000) + 1) * 1000
    /\ UNCHANGED <<ringVars, poolVars, wavVars, sysVars, bufVars, pt, wr, pwm>>

\* The next step of the playback thread; at most one of the four is enabled.
audio_playback_thread ==
    \/ audio_playback_thread_entry
    \/ audio_playback_thread_loop
    \/ audio_playback_thread_wake
    \/ audio_playback_thread_expire

\* The calls the application makes on the audio system while it plays.
PlayCalls ==
    \/ audioplay_audio_system_start
    \/ audioplay_audio_system_pause
    \/ \E len \in WriteLens : audioplay_audio_system_write(len)
    \/ audio_system_write_check
    \/ audio_system_write_store

PlayNext == PlayCalls \/ audio_playback_thread \/ Tick

PlaySpec == PlayInit /\ [][PlayNext]_vars

\* The scheduler runs the playback thread whenever it is ready, and a wait
\* with a timeout ends.
PlayFairSpec == PlaySpec /\ WF_vars(audio_playback_thread)

\* The same within one millisecond of uptime: no Tick. The path the thread
\* takes after a read of nothing does not read the uptime.
StarveNext == PlayCalls \/ audio_playback_thread

StarveSpec ==
    PlayInit /\ [][StarveNext]_vars /\ WF_vars(audio_playback_thread)

\* C25: a call of audio_system_write that is not refused with an error
\* returns min(len, free space): it accepts the leading bytes that fit and
\* never rejects a byte for which the ring has room.
C25_WriteAcceptsWhatFits ==
    wr.op = "write" /\ wr.stage = "idle" /\ wr.ret >= 0 =>
        wr.ret = Min(wr.len, wr.free)

C27_PacedByDeadline ==
    [][pt'.emitted = pt.emitted + 1 =>
           clock >= pt.start + pt.k * SampleInterval]_vars

\* ---- more claims on the decoder -----------------------------------------
\* C31: whenever the decoder is initialized, format_tag is 1 (PCM), channels
\* is 1 or 2, bits_per_sample is 8 or 16, and the audio data lies inside the
\* input: audio_data_offset + audio_data_size <= data_len.
C31_InitializedDecoderInBounds ==
    dec.is_initialized =>
        /\ dec.format.format_tag = 1
        /\ dec.format.channels \in {1, 2}
        /\ dec.format.bits_per_sample \in {8, 16}
        /\ dec.audio_data_offset + dec.audio_data_size <= dec.data_len

\* ---- wav_decoder.c: headers of every supported format -------------------
\* a * 1000 in size_t: the product modulo SizeMod = 2^30, computed in two
\* halves of a
Times1000(a) ==
    ((((a \div 1048576) * 1000) % 1024) * 1048576 + (a % 1048576) * 1000)
        % SizeMod

\* wav_decoder_get_total_samples, lines 203-212
wav_decoder_get_total_samples(d) ==
    IF ~d.is_initialized THEN 0
    ELSE d.audio_data_size \div (d.format.channels * (d.format.bits_per_sample \div 8))

\* What a division by zero gives: 0 where the processor does not trap, or a
\* fault, written Trap.
Trap == -1
DivByZero == {0, Trap}

\* wav_decoder_get_duration_ms, lines 223-231: the values it can return
wav_decoder_get_duration_ms(d) ==
    IF ~d.is_initialized THEN {0}
    ELSE IF d.format.sample_rate = 0 THEN DivByZero
    ELSE {Times1000(wav_decoder_get_total_samples(d)) \div d.format.sample_rate}

\* Sizes a data chunk declares: none, the PCM bytes that follow, 2^29
Declared == {0, 4, 536870912}

\* Containers of every supported format, with sample rates 0, 8000 and 44100
HeaderFormats ==
    {Input("header", "", WavBytes(16, 1, ch, rate, bits, <<>>, DataId, n, Pcm(4)),
           Pcm(4)) :
        ch \in {1, 2}, bits \in {8, 16}, rate \in {0, 8000, 44100}, n \in Declared}

\* Inputs of 44 bytes or more whose chunks do not fit: a LIST chunk that
\* declares 100 bytes where 10 are left, and a fmt chunk whose 8 header bytes
\* are the last bytes of the input
HeaderOverruns ==
    {Input("overrun", "list",
           WavBytes(16, 1, 1, 44100, 16, ListId \o LE32(100), DataId, 2, Pcm(2)),
           <<>>),
     Input("overrun", "fmt",
           RIFF \o LE32(36) \o WAVE \o ListId \o LE32(16) \o Pcm(16)
                \o FmtId \o LE32(16),
           <<>>)}

HeaderInputs == HeaderFormats \cup HeaderOverruns

\* A call of wav_decoder_get_total_samples(&decoder)
TotalSamples ==
    /\ Defined
    /\ wlast' = WStep("total_samples", 0, wav_decoder_get_total_samples(dec),
                      FALSE, -1, 0, dec.is_initialized)
    /\ UNCHANGED <<dec, wgh, ringVars, poolVars, sysVars, bufVars, thrVars>>

\* A call of wav_decoder_get_duration_ms(&decoder)
DurationMs ==
    /\ Defined
    /\ \E ret \in wav_decoder_get_duration_ms(dec) :
           wlast' = WStep("duration_ms", 0, ret, FALSE, -1, 0, dec.is_initialized)
    /\ UNCHANGED <<dec, wgh, ringVars, poolVars, sysVars, bufVars, thrVars>>

HdrNext ==
    \/ Defined /\ \E inp \in HeaderInputs : wav_decoder_init(inp)
    \/ TotalSamples
    \/ DurationMs
    \/ WavCleanup

HdrSpec == Init /\ [][HdrNext]_vars

\* C34: on an initialized decoder wav_decoder_get_total_samples() is
\* audio_data_size / (channels * bits_per_sample / 8), and
\* wav_decoder_get_duration_ms() is that number * 1000 / sample_rate, with a
\* divisor that is not zero and a product that does not wrap around.
C34_SamplesAndDuration ==
    LET frames == dec.audio_data_size
                      \div (dec.format.channels * (dec.format.bits_per_sample \div 8))
    IN  /\ wlast.op = "total_samples" /\ dec.is_initialized =>
               /\ dec.format.channels * (dec.format.bits_per_sample \div 8) # 0
               /\ wlast.ret = frames
        /\ wlast.op = "duration_ms" /\ dec.is_initialized =>
               /\ dec.format.sample_rate # 0
               /\ frames <= (SizeMod - 1) \div 1000
               /\ wlast.ret = (frames * 1000) \div dec.format.sample_rate

\* C36: no wav_decoder_init on an input of 44 bytes or more reads a byte at
\* an offset of data_len or more.
C36_WalkStaysInside ==
    wlast.op = "init" /\ wlast.n >= WAV_HEADER_MIN => ~wlast.oob

\* ---- more claims on the playback thread ---------------------------------
\* C33: a step that takes bytes out of audio_ctx.audio_buffer or puts a
\* sample out is taken in state PLAYING only: while the state is PAUSED or
\* INITIALIZED the thread removes nothing and emits nothing.
C33_IdleWhileNotPlaying ==
    [][cb'.count < cb.count \/ pt'.emitted # pt.emitted =>
           audio.state = "PLAYING"]_vars

\* C37: with 16-bit samples every step that takes bytes out of the ring takes
\* the FrameBytes bytes of one sample and puts that sample out, so sample k is
\* made of the bytes 2k and 2k + 1 of the stream: no byte is taken and dropped.
C37_NoByteDropped ==
    [][cb'.count < cb.count =>
           /\ cb.count - cb'.count = FrameBytes
           /\ pt'.emitted = pt.emitted + 1]_vars

\* ---- audioplay.c: the playback thread and the configured format --------
\* The formats the specification calls supported. audio_system_init copies
\* whatever format the configuration holds (audioplay.c:71-117 checks the
\* output type and the device only).
Formats ==
    {[channels |-> c, bits_per_sample |-> b] : c \in {1, 2}, b \in {8, 16}}

FrameInit == \E format \in Formats : PlayInitWith(format)

FrameSpec == FrameInit /\ [][StarveNext]_vars

\* C32: each time the playback thread puts out a value it has removed exactly
\* one frame, channels * (bits_per_sample / 8) bytes, from the ring.
C32_OneFramePerOutput ==
    [][pt'.emitted = pt.emitted + 1 =>
           cb.count - cb'.count =
               audio.format.channels * (audio.format.bits_per_sample \div 8)]_vars

\* ---- audioplay.c: pwm_play_sample over the range of a sample -----------
\* Every SampleStride-th 16-bit value, and the largest one
SampleStride == 257
Samples == {s \in 0..65535 : s % SampleStride = 0} \cup {65535}

\* pwm_play_sample(sample) called on its own
PwmPlay(sample) ==
    /\ pwm' = pwm_play_sample(pwm, sample)
    /\ UNCHANGED <<ringVars, poolVars, wavVars, sysVars, bufVars, pt, wr,
                   clock>>

PwmNext == \E sample \in Samples : PwmPlay(sample)

PwmSpec == PlayInit /\ [][PwmNext]_vars

\* min_pulse + sample * pulse_range / 65535 in unbounded integers, for a
\* pulse_range below 2^31: the range is (range / 65535) * 65535 + range % 65535
LinearPulse(sample) ==
    LET min_pulse == PWM_PERIOD_NS \div 10
        pulse_range == (PWM_PERIOD_NS * 9) \div 10 - min_pulse
    IN  min_pulse + (pulse_range \div 65535) * sample
            + ((pulse_range % 65535) * sample) \div 65535

\* C40: the pulse pwm_play_sample sets is the linear image of the sample,
\* min_pulse + sample * (max_pulse - min_pulse) / 65535 without overflow:
\* 10% of the period at sample 0, 90% at sample 65535, never falling as the
\* sample grows.
C40_PulseIsLinear ==
    pwm.by = "play" =>
        /\ pwm.pulse_width = LinearPulse(pwm.sample)
        /\ pwm.sample = 0 => pwm.pulse_width * 10 = PWM_PERIOD_NS
        /\ pwm.sample = 65535 => pwm.pulse_width * 10 = PWM_PERIOD_NS * 9

\* ---- bluetooth.c: the remote volume commands ----------------------------
\* C35: a remote UNMUTE that follows a remote MUTE puts the volume back to
\* what it was before the MUTE, and the volume stays within 0..100 whatever
\* the volume field of the commands holds.
C35_UnmuteRestoresVolume ==
    /\ [][slast.op = "cmd.MUTE" /\ slast'.op = "cmd.UNMUTE" =>
              bt'.volume = slast.stored]_vars
    /\ [](bt.volume \in 0..100)

\* ---- bluetooth.c: bt_audio_streaming_thread ------------------------------
\* sizeof(audio_chunk) of bluetooth.c:385 and max_chunk of
\* gatt_audio_service.c:161 (64 and 20 bytes in the source), in the
\* proportion of a ring of CapSz bytes
BleChunk == 3
BleNotify == 2

ENOMEM == 12

\* What bt_gatt_notify answers
NotifyRets == {0, -ENOMEM}

\* gatt_audio_send_data(data, len, conn), gatt_audio_service.c:122-185, for
\* an initialized service, a connected conn and len > 0, more than 50 ms after
\* the send before: the value returned and the bytes notified
gatt_audio_send_data(b, data, notify) ==
    IF ~b.subscribed THEN [ret |-> -ENOTCONN, bytes |-> <<>>]
    ELSE LET len == IF Len(data) > BleNotify THEN BleNotify ELSE Len(data)
         IN  IF notify # 0 THEN [ret |-> notify, bytes |-> <<>>]
             ELSE [ret |-> len, bytes |-> SubSeq(data, 1, len)]

\* bluetooth.c:412-448: the thread after circular_buffer_read_timeout has
\* returned or pended. Whatever gatt_audio_send_data returns, the thread
\* sleeps and goes round the loop; audio_chunk is overwritten by the next read.
AfterChunk(notify) ==
    IF pc'[Player] = "waiting" \/ last'.ret = 0
    THEN UNCHANGED bt
    ELSE bt' = [bt EXCEPT !.sent =
                   @ \o gatt_audio_send_data(bt, RingLoad(cb, last'.ret),
                                             notify).bytes]

\* bluetooth.c:392-410: one pass of the loop of a connected, streaming thread
\* whose client is subscribed, up to the return of
\* circular_buffer_read_timeout or its k_condvar_wait, and lines 412-448
bt_audio_streaming_thread_loop(notify) ==
    /\ build = "audiosys"
    /\ bt.thread /\ bt.connected /\ streaming
    /\ bt.subscribed
    /\ pc[Player] = "idle"
    /\ ReadLoop(Player, BleChunk)
    /\ AfterChunk(notify)
    /\ UNCHANGED <<streaming, build, audio, slast, poolVars, wavVars, bufVars,
                   thrVars>>

\* k_condvar_wait returned 0 inside the thread's circular_buffer_read_timeout
bt_audio_streaming_thread_wake(notify) ==
    /\ build = "audiosys"
    /\ bt.thread
    /\ pc[Player] = "woken"
    /\ ReadLoop(Player, arg[Player])
    /\ AfterChunk(notify)
    /\ UNCHANGED <<streaming, build, audio, slast, poolVars, wavVars, bufVars,
                   thrVars>>

\* k_condvar_wait returned -EAGAIN after 100 ms: the read returns 0
bt_audio_streaming_thread_expire ==
    /\ build = "audiosys"
    /\ bt.thread
    /\ pc[Player] = "waiting"
    /\ pc' = [pc EXCEPT ![Player] = "idle"]
    /\ arg' = [arg EXCEPT ![Player] = 0]
    /\ last' = Step("read_timeout", Player, arg[Player], <<>>, 0, TRUE, "none")
    /\ UNCHANGED <<cb, wokeBy, streaming, hist, poolVars, wavVars, sysVars,
                   bufVars, thrVars>>

\* bluetooth_audio_write(data, len), bluetooth.c:363-378, on an initialized
\* and connected bt_audio (any other gets -ENOTCONN and nothing is written)
bluetooth_audio_write(len) ==
    /\ build = "audiosys"
    /\ bt.initialized /\ bt.connected
    /\ circular_buffer_write(Writer, len)

\* gatt_audio_data_ccc_cfg_changed(attr, value), gatt_audio_service.c:269-283:
\* the client writes the configuration descriptor of the data characteristic
gatt_audio_data_ccc_cfg_changed(notify) ==
    /\ build = "audiosys"
    /\ bt.link
    /\ bt.subscribed # notify
    /\ bt' = [bt EXCEPT !.subscribed = notify]
    /\ UNCHANGED <<build, audio, slast, ringVars, poolVars, wavVars, bufVars,
                   thrVars>>

\* Boot of the audiosys image; the bytes written and read are kept.
BleInit ==
    /\ RingAfterInit([NoHistory EXCEPT !.rec = TRUE])
    /\ PoolAfterInit
    /\ WavAtBoot
    /\ SysAtBoot("audiosys")
    /\ BufAtAlloc
    /\ ThreadAtBoot

BleNext ==
    \/ \E fault \in BtFaults : audiosys_audio_system_init("BLUETOOTH", fault)
    \/ bt_connected_callback
    \/ audiosys_audio_system_start
    \/ \E len \in 1..MaxLen : bluetooth_audio_write(len)
    \/ \E notify \in NotifyRets : bt_audio_streaming_thread_loop(notify)
    \/ \E notify \in NotifyRets : bt_audio_streaming_thread_wake(notify)
    \/ bt_audio_streaming_thread_expire
    \/ \E notify \in BOOLEAN : gatt_audio_data_ccc_cfg_changed(notify)

BleSpec == BleInit /\ [][BleNext]_vars

\* C38: the bytes the streaming thread has taken out of the ring are the
\* bytes notified to the client, in the same order: none is taken and then
\* left out because gatt_audio_send_data sent fewer or returned an error.
C38_EveryRemovedByteIsSent == bt.sent = hist.delivered

\* ---- audio_buffers.c: the statistics and the slab --------------------
\* C39: what audio_buffer_pool_get_stats reports is the state of the slab:
\* buffers_in_use is the number of blocks checked out, free_buffers the number
\* of blocks free, and neither is above total_buffers.
C39_StatsMatchSlab ==
    LET s == audio_buffer_pool_get_stats
    IN  pool.initialized =>
            /\ s.buffers_in_use = slab.num_used
            /\ s.free_buffers = Cardinality(FreeSlots)
            /\ s.buffers_in_use <= s.total_buffers
            /\ s.free_buffers <= s.total_buffers

====
